---- MODULE Spec2Model ----
(***************************************************************************)
(* Deferred extended-attribute update protocol of fs/xfs/xfs_attr_item.c:  *)
(* the ATTRI (intent) / ATTRD (done) log item pair, the reference count    *)
(* that ties them together, the live deferred-operation path and the log   *)
(* recovery path.                                                          *)
(*                                                                         *)
(* The log item callbacks of the intent and done items are                 *)
(* modelled from the source.  The generic deferred-operation dispatcher    *)
(* (xfs_defer.c), the transaction commit/cancel engine and the log         *)
(* recovery driver (xfs_log_recover.c) are not part of the sources; they   *)
(* are modelled after the design description and only call the callbacks.  *)
(***************************************************************************)
EXTENDS Integers, Sequences, FiniteSets, TLC

(* ---------------------------------------------------------------------- *)
(* Bounds of the model                                                    *)
(* ---------------------------------------------------------------------- *)
MaxSlots   == 3     \* intent items that can be allocated per boot
MaxDSlots  == 3     \* done items that can be allocated per boot
MaxOps     == 1     \* attr operations queued by callers in one behaviour
MaxLog     == 4     \* records the log can hold
MaxCrashes == 2     \* crashes (hence recovery runs) in one behaviour
MaxRetry   == 1     \* RETRY (-EAGAIN) results one operation may see

(* ---------------------------------------------------------------------- *)
(* Program constants                                                      *)
(* ---------------------------------------------------------------------- *)
XATTR_NAME_MAX           == 255
XATTR_SIZE_MAX           == 65536
XFS_ATTR_OP_FLAGS_SET    == 1
XFS_ATTR_OP_FLAGS_REMOVE == 2
ATTRI_INIT_REFCOUNT      == 2
FMT_SIZE                 == 40   \* sizeof(struct xfs_attri_log_format)

Slots  == 1..MaxSlots
DSlots == 1..MaxDSlots
Ops    == 1..MaxOps
NULL   == 0

(* errno values, only compared for equality *)
EFSCORRUPTED == "EFSCORRUPTED"
EAGAIN       == "EAGAIN"
EIO          == "EIO"
ENOENT       == "ENOENT"
ENOSPC       == "ENOSPC"
ENOATTR      == "ENOATTR"   \* the name is not in the attribute fork
OK           == "OK"

(* ---------------------------------------------------------------------- *)
(* Inputs: operation descriptors (owner inode, op kind, lengths)          *)
(* ---------------------------------------------------------------------- *)
ValidInos == {1}
BadIno    == 0
OpKinds   == {XFS_ATTR_OP_FLAGS_SET, XFS_ATTR_OP_FLAGS_REMOVE, 3}
NameLens  == {0, 1}
ValueLens == {0, 1, XATTR_SIZE_MAX + 1}

AllDescs == [ino : ValidInos \cup {BadIno}, op : OpKinds, nlen : NameLens,
             vlen : ValueLens]

Faults(d) ==
    (IF d.ino \in ValidInos THEN 0 ELSE 1)
  + (IF d.op \in {XFS_ATTR_OP_FLAGS_SET, XFS_ATTR_OP_FLAGS_REMOVE} THEN 0 ELSE 1)
  + (IF d.nlen >= 1 /\ d.nlen <= XATTR_NAME_MAX THEN 0 ELSE 1)
  + (IF d.vlen <= 1 THEN 0 ELSE 1)
  + (IF d.op = XFS_ATTR_OP_FLAGS_REMOVE /\ d.vlen # 0 THEN 1 ELSE 0)

(* what a caller can queue: an inode it holds, and at most one defect in   *)
(* kind and lengths (one representative per defect; a valid SET carries a  *)
(* value, a valid REMOVE none)                                             *)
Descs == { d \in AllDescs :
             /\ d.ino \in ValidInos
             /\ \/ Faults(d) = 0 /\ (d.op = XFS_ATTR_OP_FLAGS_SET => d.vlen = 1)
                \/ Faults(d) = 1 /\ (d.vlen = 1 \/ d.op = XFS_ATTR_OP_FLAGS_SET)
                                 /\ (d.nlen = 0 => d.vlen = 0) }

NoDesc == [ino |-> 0, op |-> 0, nlen |-> 0, vlen |-> 0]

(* "valid (name, value, kind)" of the design description *)
ValidDesc(d) == Faults(d) = 0

xfs_verify_ino(ino) == ino \in ValidInos

VARIABLES
    attri,      \* intent items in memory, by address (slot)
    attrd,      \* done items in memory, by address
    ail,        \* the AIL / recovery list: sequence of intent slots, by lsn
    log,        \* the on-disk log: sequence of records
    ops,        \* deferred operations (xfs_attr_item + its dfops entry)
    mode,       \* "live", "scan", "replay", "cont"
    scanpos,    \* next log record the recovery scan decodes
    shutdown,   \* filesystem shut down after a dirty cancel / log error
    hasdelattr, \* xfs_hasdelattr(mp): the feature that produces intents
    crashes,    \* crashes so far
    queued,     \* operations queued by callers so far
    bad,        \* an ASSERT of xfs_attri_release failed (zero count / freed)
    hist        \* observations of the current boot (never read by the code)

vars == <<attri, attrd, ail, log, ops, mode, scanpos, shutdown,
          hasdelattr, crashes, queued, bad, hist>>

(* st: "none" (never allocated), "live", "freed", "gone" (freed during an   *)
(*     earlier operation)                                                  *)
(* loc: where the log has the item: "tx" in an uncommitted transaction,    *)
(*      "cil" committed and pinned, "ail" inserted and awaiting unpin,     *)
(*      "unpinned" the log dropped its reference                           *)
(* observations: frees counts calls of the free function, by lists the     *)
(* callers of release in order, refins is the reference count found at the *)
(* AIL insertion (0: never inserted)                                       *)
NoAttri == [st |-> "none", refcount |-> 0, id |-> 0, d |-> NoDesc,
            dirty |-> FALSE, rec |-> FALSE, proc |-> FALSE, loc |-> "none",
            lpos |-> 0, frees |-> 0, by |-> <<>>, refins |-> 0,
            name |-> <<>>, value |-> <<>>, hasbuf |-> FALSE]
NoAttrd == [st |-> "none", attrip |-> NULL, alf_id |-> 0, dirty |-> FALSE,
            frees |-> 0]
(* struct xfs_delattr_context: the continuation state (dela_state, 0 is    *)
(* uninitialized) and the scratch fields of an operation: the leaf buffer  *)
(* held across transactions (a handle, NULL for none) and the count of     *)
(* blocks still to allocate.  da_args tells where the argument block the   *)
(* context points at lives.                                                *)
NoDac == [da_args |-> "none", dela_state |-> 0, leaf_bp |-> 0, blkcnt |-> 0]

(* what surrounds a descriptor while it is driven: drv the driver, tp the  *)
(* current transaction, b_transp the transaction the leaf buffer is joined *)
(* to (0: none) and b_hold whether it is held, fork the shape of the       *)
(* attribute fork and the work left in it.  Observations of the step       *)
(* calls: ncall whether one was made, ret the context the last call gave   *)
(* back, then for the latest call inp the context it was entered with, prev *)
(* the context the call before it returned, re whether it followed a       *)
(* RETRY and joined whether the leaf buffer of inp was joined to and held  *)
(* by the transaction of the call.  op_flags is args->op_flags, the flags  *)
(* of the argument block the caller built.                                 *)
NoFork == [oneblk |-> FALSE, space |-> FALSE, rename |-> FALSE,
           shrink |-> FALSE, nalloc |-> 0, nrm |-> 0]
NoCx == [drv |-> "none", tp |-> 0, b_transp |-> 0, b_hold |-> FALSE,
         mgr |-> FALSE, fork |-> NoFork, ncall |-> 0, ret |-> NoDac,
         inp |-> NoDac, prev |-> NoDac, re |-> FALSE, joined |-> FALSE,
         op_flags |-> 0]

NoOp    == [pc |-> "idle", d |-> NoDesc, ip |-> NULL, dp |-> NULL,
            nretry |-> 0, nstep |-> 0, nroll |-> 0, tdirty |-> FALSE,
            err |-> OK, alive |-> FALSE, nlock |-> 0, leaf |-> FALSE,
            name |-> <<>>, value |-> <<>>, held |-> FALSE,
            dac |-> NoDac, cx |-> NoCx, nfree |-> 0,
            nget |-> 0, nrele |-> 0, nunlock |-> 0]

(* kmem_free of the attr item of an operation (nfree counts the calls) *)
kmem_free(op) == [op EXCEPT !.alive = FALSE, !.nfree = @ + 1]

(* variant: the attr item is freed whatever the step returned *)
xfs_attr_finish_item_free_always(op, error) == kmem_free(op)

(* xfs_attr_finish_item, its last statement: the attr item is freed unless *)
(* the step asks to be called again                                        *)
xfs_attr_finish_item_free(op, error) ==
    IF error # EAGAIN THEN kmem_free(op) ELSE op

(* xfs_attr_cancel_item: the manager gives up a pending attr item *)
xfs_attr_cancel_item(op) == kmem_free(op)

(* A log record: an intent format plus payload lengths, or a done format.  *)
(* ilen is the length of the format region as found by a later scan; ipos  *)
(* (observation only) is the log position of the intent a done record was  *)
(* written for.                                                            *)
IRec(a)      == [t |-> "I", id |-> a.id, d |-> a.d, ilen |-> FMT_SIZE, ipos |-> 0]
DRec(dn, A)  == [t |-> "D", id |-> dn.alf_id, d |-> NoDesc, ilen |-> 0,
                 ipos |-> A[dn.attrip].lpos]

(* ---------------------------------------------------------------------- *)
(* Memory: the part of the state the item callbacks read and write.       *)
(*   a: intent items, d: done items, l: the AIL, b: assertion failure     *)
(* ---------------------------------------------------------------------- *)
Mem == [a |-> attri, d |-> attrd, l |-> ail, b |-> bad]

xfs_trans_ail_delete(l, s) == SelectSeq(l, LAMBDA x : x # s)

(* insert by log sequence number: the sequence stays ordered by lpos *)
RECURSIVE AilInsertAt(_, _, _)
AilInsertAt(l, s, A) ==
    IF l = <<>> THEN <<s>>
    ELSE IF A[Head(l)].lpos <= A[s].lpos
         THEN <<Head(l)>> \o AilInsertAt(Tail(l), s, A)
         ELSE <<s>> \o l

xfs_trans_ail_insert(l, s, A) == AilInsertAt(l, s, A)

InAil(l, s) == \E i \in 1..Len(l) : l[i] = s

(* xfs_attri_item_free *)
xfs_attri_item_free(a) == [a EXCEPT !.st = "freed", !.frees = @ + 1]

(* variant: the last reference is dropped without freeing the item *)
xfs_attri_release_nofree(M, s) ==
    IF s = NULL \/ M.a[s].st # "live" \/ M.a[s].refcount <= 0
    THEN [M EXCEPT !.b = TRUE]
    ELSE [M EXCEPT !.a[s].refcount = @ - 1]

(* xfs_attri_release: ASSERT(refcount > 0); drop one reference; the last   *)
(* one removes the item from the AIL and frees it.                         *)
xfs_attri_release(M, s) ==
    IF s = NULL \/ M.a[s].st # "live" \/ M.a[s].refcount <= 0
    THEN [M EXCEPT !.b = TRUE]
    ELSE IF M.a[s].refcount - 1 = 0
         THEN [M EXCEPT !.a[s] = xfs_attri_item_free([@ EXCEPT !.refcount = 0]),
                        !.l = xfs_trans_ail_delete(@, s)]
         ELSE [M EXCEPT !.a[s].refcount = @ - 1]

(* variants: callbacks that keep the reference *)
xfs_attri_item_unpin_keep(M, s)   == M
xfs_attri_item_release_keep(M, s) == M

(* xfs_attri_item_unpin and xfs_attri_item_release both drop one reference *)
xfs_attri_item_unpin(M, s) == xfs_attri_release(M, s)

xfs_attri_item_release(M, s) == xfs_attri_release(M, s)

(* variant: the abort leaves the reference in place *)
xfs_attr_abort_intent_keep(M, s) == M

(* xfs_attr_abort_intent *)
xfs_attr_abort_intent(M, s) == xfs_attri_release(M, s)

(* variant: an intent born with a single reference *)
xfs_attri_init_oneref(s) ==
    [NoAttri EXCEPT !.st = "live", !.refcount = 1, !.id = s, !.loc = "tx"]

(* xfs_attri_init: a zeroed item whose id is its own address, two refs *)
xfs_attri_init(s) ==
    [NoAttri EXCEPT !.st = "live", !.refcount = ATTRI_INIT_REFCOUNT,
                    !.id = s, !.loc = "tx"]

(* variant: the intent is filled but not marked dirty, so that no commit  *)
(* writes it                                                             *)
xfs_attr_log_item_clean(a, d) == [a EXCEPT !.d = d]

(* variant: name length and value length are stored in each other's place *)
xfs_attr_log_item_swapped(a, d) ==
    [a EXCEPT !.dirty = TRUE,
              !.d = [d EXCEPT !.nlen = d.vlen, !.vlen = d.nlen]]

(* xfs_attr_log_item: dirty the item and fill the format from the attr *)
xfs_attr_log_item(a, d) == [a EXCEPT !.dirty = TRUE, !.d = d]

(* xfs_attr_log_item, the payload part: the item points at the name and    *)
(* value buffers of the attr (hasbuf: the pointers are not NULL)           *)
xfs_attr_log_payload(a, name, value) ==
    [a EXCEPT !.name = name, !.value = value, !.hasbuf = TRUE]

(* xfs_attri_item_committed: the name and value pointers are cleared *)
xfs_attri_item_committed(a) ==
    [a EXCEPT !.name = <<>>, !.value = <<>>, !.hasbuf = FALSE]

(* memcpy of n bytes out of a buffer *)
memcpy(src, n) == [i \in 1..n |-> IF i <= Len(src) THEN src[i] ELSE 0]

(* variant: no intent ever matches *)
xfs_attri_item_match_never(a, intent_id) == a.id # a.id

(* xfs_attri_item_match *)
xfs_attri_item_match(a, intent_id) == a.id = intent_id

(* variant: the id of the intent is not copied into the done item *)
xfs_trans_get_attrd_noid(A, s) ==
    [NoAttrd EXCEPT !.st = "live", !.attrip = s]

(* variant: every done item points at the first intent *)
xfs_trans_get_attrd_first(A, s) ==
    [st |-> "live", attrip |-> 1, alf_id |-> A[1].id, dirty |-> FALSE,
     frees |-> 0]

(* xfs_trans_get_attrd: a done item pointing at the intent, carrying its id *)
xfs_trans_get_attrd(A, s) ==
    [NoAttrd EXCEPT !.st = "live", !.attrip = s, !.alf_id = A[s].id]

(* variant: the done item is left allocated *)
xfs_attrd_item_free_leak(dn) == dn

(* xfs_attrd_item_free *)
xfs_attrd_item_free(dn) == [dn EXCEPT !.st = "freed", !.frees = @ + 1]

(* variant: the done item is freed and keeps its reference on the intent *)
xfs_attrd_item_release_keepref(M, k) ==
    [M EXCEPT !.d[k] = xfs_attrd_item_free(@)]

(* variant: the done item drops two references on its intent *)
xfs_attrd_item_release_twice(M, k) ==
    LET M1 == xfs_attri_release(xfs_attri_release(M, M.d[k].attrip), M.d[k].attrip)
    IN  [M1 EXCEPT !.d[k] = xfs_attrd_item_free(@)]

(* xfs_attrd_item_release: drop the done item's reference on its intent,   *)
(* then free the done item.                                                *)
xfs_attrd_item_release(M, k) ==
    LET M1 == xfs_attri_release(M, M.d[k].attrip)
    IN  [M1 EXCEPT !.d[k] = xfs_attrd_item_free(@)]

(* variant: only the feature bit is looked at *)
xfs_attri_validate_featureonly(d, feature) == feature

(* xfs_attri_validate *)
xfs_attri_validate(d, feature) ==
    IF d.op # XFS_ATTR_OP_FLAGS_SET /\ d.op # XFS_ATTR_OP_FLAGS_REMOVE THEN FALSE
    ELSE IF d.vlen > XATTR_SIZE_MAX THEN FALSE
    ELSE IF d.nlen > XATTR_NAME_MAX \/ d.nlen = 0 THEN FALSE
    ELSE IF ~xfs_verify_ino(d.ino) THEN FALSE
    ELSE feature

(* variant: the done item is marked dirty without looking at the pointer *)
xfs_trans_attr_finish_update_nocheck(dq, iter, op_flags, havedone) ==
    IF dq # OK
    THEN [error |-> dq, tdirty |-> FALSE, ddirty |-> FALSE, stepped |-> FALSE]
    ELSE [error   |-> IF op_flags \in {XFS_ATTR_OP_FLAGS_SET,
                                        XFS_ATTR_OP_FLAGS_REMOVE}
                      THEN iter ELSE EFSCORRUPTED,
          tdirty  |-> TRUE,
          ddirty  |-> TRUE,
          stepped |-> op_flags \in {XFS_ATTR_OP_FLAGS_SET,
                                    XFS_ATTR_OP_FLAGS_REMOVE}]

(* xfs_trans_attr_finish_update: one step of the update.  dq is the result *)
(* of the quota attach, iter the result of the set/remove iterator.  The   *)
(* result tells the error and whether the transaction and the done item    *)
(* were marked dirty.                                                      *)
xfs_trans_attr_finish_update(dq, iter, op_flags, havedone) ==
    IF dq # OK
    THEN [error |-> dq, tdirty |-> FALSE, ddirty |-> FALSE, stepped |-> FALSE]
    ELSE [error   |-> IF op_flags \in {XFS_ATTR_OP_FLAGS_SET,
                                        XFS_ATTR_OP_FLAGS_REMOVE}
                      THEN iter ELSE EFSCORRUPTED,
          tdirty  |-> TRUE,
          ddirty  |-> havedone,
          stepped |-> op_flags \in {XFS_ATTR_OP_FLAGS_SET,
                                    XFS_ATTR_OP_FLAGS_REMOVE}]

(* observation: remember which caller dropped a reference of intent s *)
Tag(M, s, who) == IF s = NULL THEN M ELSE [M EXCEPT !.a[s].by = Append(@, who)]

SetMem(M) ==
    /\ attri' = M.a
    /\ attrd' = M.d
    /\ ail' = M.l
    /\ bad' = M.b

LogPos == 1..MaxLog

(* Observations of one boot, indexed by log position of an intent record:  *)
(*   nstep: step invocations made for the recovered intent,                *)
(*   ndrive: calls of the recover function for it,                         *)
(*   err: error reported for it by the scan or by the recover function,    *)
(*   seen: the scan decoded the record,                                    *)
(*   sterr: result of the step the recover function made for it.           *)
(* log0 is the log as found at the start of the recovery run; prevdone     *)
(* tells that the previous boot completed a recovery run and wrote nothing *)
(* to the log afterwards, prevdrive that this run called the recover       *)
(* function; derr counts errors reported by done records.                  *)
NoHist == [nstep |-> [p \in LogPos |-> 0], ndrive |-> [p \in LogPos |-> 0],
           err |-> [p \in LogPos |-> OK], seen |-> [p \in LogPos |-> FALSE],
           sterr |-> [p \in LogPos |-> OK],
           log0 |-> <<>>, prevdone |-> FALSE, recdone |-> FALSE,
           prevdrive |-> FALSE, derr |-> 0]

(* the allocator hands out the lowest address never used in this boot *)
FreeSlots  == { s \in Slots  : attri[s].st = "none"
                                /\ \A t \in Slots : t < s => attri[t].st # "none" }
FreeDSlots == { k \in DSlots : attrd[k].st = "none"
                                /\ \A t \in DSlots : t < k => attrd[t].st # "none" }

Init ==
    /\ attri = [s \in Slots |-> NoAttri]
    /\ attrd = [k \in DSlots |-> NoAttrd]
    /\ ail = <<>>
    /\ log = <<>>
    /\ ops = [o \in Ops |-> NoOp]
    /\ mode = "live"
    /\ scanpos = 0
    /\ shutdown = FALSE
    /\ hasdelattr \in BOOLEAN
    /\ crashes = 0
    /\ queued = 0
    /\ bad = FALSE
    /\ hist = NoHist


(* ====================================================================== *)
(* Live path: the deferred-operation manager driving one attr operation   *)
(* ====================================================================== *)
InProgress(o) == ops[o].pc \notin {"idle", "finished", "failed"}

(* Operations on one inode are serialized by its exclusive lock, and the   *)
(* recovery driver finishes captured continuations one after the other:    *)
(* the operation that runs is the first one in progress.                   *)
Running(o) ==
    /\ mode \in {"live", "cont"}
    /\ \A o2 \in Ops : o2 < o => ~InProgress(o2)

(* what is remembered of the items freed by earlier operations: only that *)
(* their addresses were handed out                                         *)
ForgetAttri(A) ==
    [s \in Slots |-> IF A[s].st \in {"freed", "gone"}
                     THEN [NoAttri EXCEPT !.st = "gone"] ELSE A[s]]
ForgetAttrd(D) ==
    [k \in DSlots |-> IF D[k].st \in {"freed", "gone"}
                      THEN [NoAttrd EXCEPT !.st = "gone"] ELSE D[k]]

(* The caller queues an attr operation on its transaction.  Callers run in *)
(* the first boot, one after the other (the work item of the operation     *)
(* that ended is given back), once the log has written back what was       *)
(* committed; a filesystem that is shut down takes no new operation.  The  *)
(* caller holds the inode's exclusive lock (held) for the operation.       *)
(* A caller whose operation failed queues no further one.                  *)
Queue(o, d) ==
    /\ mode = "live"
    /\ ~shutdown
    /\ \A o2 \in Ops : ~InProgress(o2) /\ o <= o2
    /\ queued < MaxOps
    /\ \A o2 \in Ops : ops[o2].pc # "failed"
    /\ crashes = 0
    /\ \A s \in Slots : attri[s].st = "live" => attri[s].loc \notin {"cil", "ail"}
    /\ queued' = queued + 1
    /\ ops' = [o2 \in Ops |-> IF o2 = o
                              THEN [NoOp EXCEPT !.pc = "queued", !.d = d,
                                                !.alive = TRUE,
                                                !.held = TRUE]
                              ELSE NoOp]
    /\ attri' = ForgetAttri(attri)
    /\ attrd' = ForgetAttrd(attrd)
    /\ UNCHANGED <<ail, log, mode, scanpos, shutdown, hasdelattr, crashes,
                   bad, hist>>

(* xfs_attr_create_intent: NULL when the feature is off or the allocation  *)
(* fails, else a new intent added to the transaction and filled from the   *)
(* attr item.                                                              *)
xfs_attr_create_intent(o, s, allocok) ==
    /\ Running(o)
    /\ ops[o].pc = "queued"
    /\ ~hasdelattr => allocok              \* no allocation is attempted
    /\ IF ~hasdelattr \/ ~allocok
       THEN /\ ops' = [ops EXCEPT ![o].pc = "intent", ![o].ip = NULL]
            /\ attri' = attri
       ELSE /\ s \in FreeSlots
            /\ attri' = [attri EXCEPT ![s] = xfs_attr_log_payload(
                                   xfs_attr_log_item(xfs_attri_init(s), ops[o].d),
                                   ops[o].name, ops[o].value)]
            /\ ops' = [ops EXCEPT ![o].pc = "intent", ![o].ip = s,
                                  ![o].tdirty = TRUE]
    /\ UNCHANGED <<attrd, ail, log, mode, scanpos, shutdown, hasdelattr,
                   crashes, queued, bad, hist>>

(* a live commit that writes records ends the "nothing written since the   *)
(* last recovery" observation                                              *)
Touch(recs) ==
    IF mode = "live" /\ recs # <<>> THEN [hist EXCEPT !.recdone = FALSE] ELSE hist

(* records a commit of operation o's transaction appends to the log: the   *)
(* dirty done item first (it joined the transaction first), then a new     *)
(* intent.                                                                 *)
CommitRecs(o, withIntent) ==
    (IF ops[o].dp # NULL /\ attrd[ops[o].dp].st = "live" /\ attrd[ops[o].dp].dirty
     THEN <<DRec(attrd[ops[o].dp], attri)>> ELSE <<>>)
 \o (IF withIntent /\ ops[o].ip # NULL /\ attri[ops[o].ip].dirty
     THEN <<IRec(attri[ops[o].ip])>> ELSE <<>>)

(* releasing the items of operation o's transaction: the done item through *)
(* xfs_attrd_item_release, an uncommitted intent through                   *)
(* xfs_attri_item_release.                                                 *)
ReleaseDone(M, o) ==
    IF ops[o].dp # NULL /\ M.d[ops[o].dp].st = "live"
    THEN Tag(xfs_attrd_item_release(M, ops[o].dp), M.d[ops[o].dp].attrip, "attrd")
    ELSE M

(* the manager rolls the transaction that holds the new intent (and, after *)
(* a RETRY, the done item of the previous intent).                         *)
DeferRoll(o) ==
    /\ Running(o)
    /\ ops[o].pc = "intent"
    /\ ~shutdown
    /\ LET recs == CommitRecs(o, TRUE)
           ip   == ops[o].ip
           M1   == ReleaseDone(Mem, o)
           M2   == IF ip = NULL THEN M1
                   ELSE [M1 EXCEPT !.a[ip].loc = "cil",
                                   !.a[ip].lpos = Len(log) + Len(recs)]
       IN  /\ Len(log) + Len(recs) <= MaxLog
           /\ log' = log \o recs
           /\ SetMem(M2)
           /\ hist' = Touch(recs)
    /\ ops' = [ops EXCEPT ![o].pc = "ready", ![o].tdirty = FALSE,
                          ![o].nroll = @ + 1]
    /\ UNCHANGED <<mode, scanpos, shutdown, hasdelattr, crashes, queued>>


(* the roll fails (log error): the transaction is cancelled, which releases *)
(* its items, and the manager aborts the pending intent and cancels the    *)
(* work item.                                                              *)
DeferRollFail(o) ==
    /\ Running(o)
    /\ ops[o].pc = "intent"
    /\ LET ip == ops[o].ip
           M1 == ReleaseDone(Mem, o)
           M2 == IF ip = NULL THEN M1
                 ELSE Tag(xfs_attri_item_release(M1, ip), ip, "item_release")
           M3 == IF ip = NULL THEN M2
                 ELSE Tag(xfs_attr_abort_intent(M2, ip), ip, "abort_intent")
       IN  SetMem(M3)
    /\ shutdown' = TRUE
    /\ ops' = [ops EXCEPT ![o] = [xfs_attr_cancel_item(ops[o])
                                     EXCEPT !.pc = "failed", !.err = EIO]]
    /\ UNCHANGED <<log, mode, scanpos, hasdelattr, crashes, queued, hist>>

(* xfs_attr_create_done: no done item for a NULL intent *)
xfs_attr_create_done(o, k) ==
    /\ Running(o)
    /\ ops[o].pc = "ready"
    /\ IF ops[o].ip = NULL
       THEN /\ ops' = [ops EXCEPT ![o].pc = "havedone", ![o].dp = NULL]
            /\ attrd' = attrd
       ELSE /\ k \in FreeDSlots
            /\ attrd' = [attrd EXCEPT ![k] = xfs_trans_get_attrd(attri, ops[o].ip)]
            /\ ops' = [ops EXCEPT ![o].pc = "havedone", ![o].dp = k]
    /\ UNCHANGED <<attri, ail, log, mode, scanpos, shutdown, hasdelattr,
                   crashes, queued, bad, hist>>

StepResults(n) == IF n < MaxRetry THEN {OK, EAGAIN, ENOSPC, ENOATTR}
                  ELSE {OK, ENOSPC, ENOATTR}
DqResults      == {OK, ENOSPC}

(* xfs_attr_finish_item: one step through xfs_trans_attr_finish_update;    *)
(* the attr item is freed unless the step asks for a retry.  The manager   *)
(* requeues the item on RETRY and cancels the transaction on FAILURE.      *)
xfs_attr_finish_item(o, dq, iter) ==
    /\ Running(o)
    /\ ops[o].pc = "havedone"
    /\ iter \in StepResults(ops[o].nretry)
    /\ dq # OK => iter = OK                 \* the iterator is not reached
    /\ LET dp == ops[o].dp
           r  == xfs_trans_attr_finish_update(dq, iter, ops[o].d.op, dp # NULL)
           td == ops[o].tdirty \/ r.tdirty
           (* set_bit on the done item: a NULL pointer dereference when     *)
           (* there is none                                                 *)
           M0 == IF ~r.ddirty THEN Mem
                 ELSE IF dp # NULL THEN [Mem EXCEPT !.d[dp].dirty = TRUE]
                 ELSE [Mem EXCEPT !.b = TRUE]
           o1 == xfs_attr_finish_item_free(
                     [ops[o] EXCEPT !.tdirty = td,
                                    !.nstep = IF r.stepped THEN @ + 1 ELSE @],
                     r.error)
       IN  CASE r.error = OK ->
                  /\ ops' = [ops EXCEPT ![o] = [o1 EXCEPT !.pc = "stepped"]]
                  /\ SetMem(M0)
                  /\ shutdown' = shutdown
             [] r.error = EAGAIN ->
                  /\ ops' = [ops EXCEPT ![o] = [o1 EXCEPT !.pc = "queued",
                                                          !.nretry = @ + 1]]
                  /\ SetMem(M0)
                  /\ shutdown' = shutdown
             [] OTHER ->
                  /\ ops' = [ops EXCEPT ![o] = [o1 EXCEPT !.pc = "failed",
                                                          !.err = r.error]]
                  /\ SetMem(ReleaseDone(M0, o))
                  /\ shutdown' = (shutdown \/ td)
    /\ UNCHANGED <<log, mode, scanpos, hasdelattr, crashes, queued, hist>>

(* the final commit: the done record reaches the log and the done item is  *)
(* released when committed.                                                *)
DeferCommit(o) ==
    /\ Running(o)
    /\ ops[o].pc = "stepped"
    /\ ~shutdown
    /\ LET recs == CommitRecs(o, FALSE)
       IN  /\ Len(log) + Len(recs) <= MaxLog
           /\ log' = log \o recs
           /\ SetMem(ReleaseDone(Mem, o))
           /\ hist' = Touch(recs)
    /\ ops' = [ops EXCEPT ![o].pc = "finished", ![o].tdirty = FALSE]
    /\ UNCHANGED <<mode, scanpos, shutdown, hasdelattr, crashes, queued>>

(* the final commit fails: the items are released as aborted *)
DeferCommitFail(o) ==
    /\ Running(o)
    /\ ops[o].pc = "stepped"
    /\ SetMem(ReleaseDone(Mem, o))
    /\ shutdown' = TRUE
    /\ ops' = [ops EXCEPT ![o].pc = "failed", ![o].err = EIO]
    /\ UNCHANGED <<log, mode, scanpos, hasdelattr, crashes, queued, hist>>

(* ---------------------------------------------------------------------- *)
(* The log's completion path, on its own thread                           *)
(* ---------------------------------------------------------------------- *)
(* the checkpoint holding intent s is on disk: insert it into the AIL *)
LogCommitted(s) ==
    /\ attri[s].st = "live"
    /\ attri[s].loc = "cil"
    /\ ~shutdown
    /\ ail' = xfs_trans_ail_insert(ail, s, attri)
    /\ attri' = [attri EXCEPT ![s] = [xfs_attri_item_committed(@) EXCEPT
                                         !.loc = "ail",
                                         !.refins = attri[s].refcount]]
    /\ UNCHANGED <<attrd, log, ops, mode, scanpos, shutdown, hasdelattr,
                   crashes, queued, bad, hist>>

(* iop_unpin: after the insertion, or with the log aborted (remove); a    *)
(* recovered intent was never pinned, its decoder dropped that reference  *)
ItemUnpin(s, abort) ==
    /\ attri[s].st = "live"
    /\ ~attri[s].rec
    /\ IF abort THEN attri[s].loc = "cil" ELSE attri[s].loc = "ail"
    /\ SetMem(Tag([xfs_attri_item_unpin(Mem, s) EXCEPT !.a[s].loc = "unpinned"],
                  s, "unpin"))
    /\ shutdown' = (shutdown \/ abort)
    /\ UNCHANGED <<log, ops, mode, scanpos, hasdelattr, crashes, queued, hist>>


(* ====================================================================== *)
(* Crash and log recovery                                                 *)
(* ====================================================================== *)
(* A crash loses memory and keeps the log.  The log may come back with the *)
(* format region of one intent record damaged (c is its position, 0 for    *)
(* none; one record at most, damaged by the first crash): a wrong region   *)
(* length, owner inode number or name length.                              *)
Crash(c, what) ==
    /\ crashes < MaxCrashes
    /\ c \in 0..Len(log)
    /\ c = 0 => what = "ilen"
    /\ c # 0 => crashes = 0
    /\ c # 0 => \A q \in 1..Len(log) :
                    log[q].t = "I" =>
                        /\ log[q].ilen = FMT_SIZE
                        /\ xfs_verify_ino(log[q].d.ino)
                        /\ log[q].d.nlen <= XATTR_NAME_MAX
    /\ c # 0 => log[c].t = "I" /\ ValidDesc(log[c].d)
    /\ log' = IF c = 0 THEN log
              ELSE IF what = "ilen" THEN [log EXCEPT ![c].ilen = FMT_SIZE - 1]
              ELSE IF what = "nlen" THEN [log EXCEPT ![c].d.nlen = XATTR_NAME_MAX + 1]
              ELSE [log EXCEPT ![c].d.ino = BadIno]
    /\ attri' = [s \in Slots |-> NoAttri]
    /\ attrd' = [k \in DSlots |-> NoAttrd]
    /\ ail' = <<>>
    /\ ops' = [o \in Ops |-> NoOp]
    /\ mode' = "scan"
    /\ scanpos' = 1
    /\ shutdown' = FALSE
    /\ crashes' = crashes + 1
    /\ hist' = [NoHist EXCEPT !.log0 = log',
                              !.prevdone = (hist.recdone /\ mode = "live" /\ c = 0),
                              !.prevdrive = \E p \in LogPos : hist.ndrive[p] > 0]
    /\ UNCHANGED <<hasdelattr, bad, queued>>

(* xfs_attri_copy_format: the region must have the size of the format *)
xfs_attri_copy_format(i_len) == IF i_len # FMT_SIZE THEN EFSCORRUPTED ELSE OK

(* variant: the decoded intent keeps the id xfs_attri_init gave it *)
xlog_recover_attri_commit_pass2_ownid(M, r, s, p) ==
    IF r.d.nlen = 0 \/ (r.d.op = XFS_ATTR_OP_FLAGS_REMOVE /\ r.d.vlen # 0)
    THEN [m |-> M, error |-> EFSCORRUPTED]
    ELSE IF xfs_attri_copy_format(r.ilen) # OK
    THEN [m |-> M, error |-> xfs_attri_copy_format(r.ilen)]
    ELSE LET a  == [xfs_attri_init(s) EXCEPT !.d = r.d,
                                            !.rec = TRUE, !.lpos = p,
                                            !.loc = "ail",
                                            !.refins = ATTRI_INIT_REFCOUNT]
             A1 == [M.a EXCEPT ![s] = a]
             M1 == [M EXCEPT !.a = A1, !.l = xfs_trans_ail_insert(M.l, s, A1)]
         IN  [m |-> Tag(xfs_attri_release(M1, s), s, "pass2"), error |-> OK]

(* xlog_recover_attri_commit_pass2: check the format, allocate the item,   *)
(* copy format and payload, insert into the AIL at the record's lsn and    *)
(* drop the log's reference.  p is the log position (lsn) of the record.   *)
xlog_recover_attri_commit_pass2(M, r, s, p) ==
    IF r.d.nlen = 0 \/ (r.d.op = XFS_ATTR_OP_FLAGS_REMOVE /\ r.d.vlen # 0)
    THEN [m |-> M, error |-> EFSCORRUPTED]
    ELSE IF xfs_attri_copy_format(r.ilen) # OK
    THEN [m |-> M, error |-> xfs_attri_copy_format(r.ilen)]
    ELSE LET a  == [xfs_attri_init(s) EXCEPT !.id = r.id, !.d = r.d,
                                            !.rec = TRUE, !.lpos = p,
                                            !.loc = "ail",
                                            !.refins = ATTRI_INIT_REFCOUNT]
             A1 == [M.a EXCEPT ![s] = a]
             M1 == [M EXCEPT !.a = A1, !.l = xfs_trans_ail_insert(M.l, s, A1)]
         IN  [m |-> Tag(xfs_attri_release(M1, s), s, "pass2"), error |-> OK]

ScanIntent(s) ==
    /\ mode = "scan"
    /\ scanpos <= Len(log)
    /\ log[scanpos].t = "I"
    /\ s \in FreeSlots
    /\ LET res == xlog_recover_attri_commit_pass2(Mem, log[scanpos], s, scanpos)
       IN  /\ SetMem(res.m)
           /\ hist' = [hist EXCEPT !.err[scanpos] = res.error,
                                   !.seen[scanpos] = TRUE]
    /\ scanpos' = scanpos + 1
    /\ UNCHANGED <<log, ops, mode, shutdown, hasdelattr, crashes, queued>>

(* the recovery list walk of the log recovery driver: the first intent in  *)
(* the AIL that matches the id, or NULL                                    *)
RECURSIVE FirstMatch(_, _, _)
FirstMatch(l, A, intent_id) ==
    IF l = <<>> THEN NULL
    ELSE IF xfs_attri_item_match(A[Head(l)], intent_id) THEN Head(l)
    ELSE FirstMatch(Tail(l), A, intent_id)

xlog_recover_release_intent(M, intent_id) ==
    LET s == FirstMatch(M.l, M.a, intent_id)
    IN  IF s = NULL THEN M
        ELSE Tag(xfs_attri_item_release(M, s), s, "recover_release")

(* variant: a done record without intent is reported as corruption *)
xlog_recover_attrd_commit_pass2_strict(M, r) ==
    [m |-> xlog_recover_release_intent(M, r.id),
     error |-> IF FirstMatch(M.l, M.a, r.id) = NULL THEN EFSCORRUPTED ELSE OK]

(* xlog_recover_attrd_commit_pass2: cancel the matching intent; returns 0 *)
xlog_recover_attrd_commit_pass2(M, r) ==
    [m |-> xlog_recover_release_intent(M, r.id), error |-> OK]

ScanDone ==
    /\ mode = "scan"
    /\ scanpos <= Len(log)
    /\ log[scanpos].t = "D"
    /\ LET res == xlog_recover_attrd_commit_pass2(Mem, log[scanpos])
       IN  /\ SetMem(res.m)
           /\ hist' = [hist EXCEPT !.derr = IF res.error = OK THEN @ ELSE @ + 1,
                                   !.seen[scanpos] = TRUE]
    /\ scanpos' = scanpos + 1
    /\ UNCHANGED <<log, ops, mode, shutdown, hasdelattr, crashes, queued>>

ScanEnd ==
    /\ mode = "scan"
    /\ scanpos > Len(log)
    /\ mode' = "replay"
    /\ UNCHANGED <<attri, attrd, ail, log, ops, scanpos, shutdown, hasdelattr,
                   crashes, queued, bad, hist>>


(* ---------------------------------------------------------------------- *)
(* Replay of the intents left in the recovery list                        *)
(* ---------------------------------------------------------------------- *)
(* variant: the walk gives up at the first intent that was already driven *)
FirstUnprocessed_head(l, A) ==
    IF l = <<>> THEN NULL
    ELSE IF A[Head(l)].rec /\ ~A[Head(l)].proc THEN Head(l)
    ELSE NULL

RECURSIVE FirstUnprocessed(_, _)
FirstUnprocessed(l, A) ==
    IF l = <<>> THEN NULL
    ELSE IF A[Head(l)].rec /\ ~A[Head(l)].proc THEN Head(l)
    ELSE FirstUnprocessed(Tail(l), A)

IgetResults   == {OK, ENOENT}
TallocResults == {OK, ENOSPC}

(* variant: the step's error is dropped and success is returned *)
xfs_attri_item_recover_cancel_ok(M3, r) ==
    [m |-> M3, recs |-> <<>>, stepped |-> r.stepped, down |-> r.tdirty,
     cont |-> NULL, locked |-> TRUE, error |-> OK, sterr |-> r.error]

(* xfs_attri_item_recover, the exit on a step error other than -EAGAIN:    *)
(* xfs_trans_cancel (M3 is the memory after it released the transaction's  *)
(* items; a dirty transaction shuts the filesystem down), then unlock,     *)
(* release the inode and return the error.  Nothing is committed.          *)
xfs_attri_item_recover_cancel(M3, r) ==
    [m |-> M3, recs |-> <<>>, stepped |-> r.stepped, down |-> r.tdirty,
     cont |-> NULL, locked |-> TRUE, error |-> r.error, sterr |-> r.error]

(* xfs_attri_item_recover: validate, look the inode up, allocate a         *)
(* transaction, get the done item, lock the inode and run the first step.  *)
(* On -EAGAIN the rest of the work is queued as a new attr item and the    *)
(* error is cleared; on any other error the transaction is cancelled;      *)
(* otherwise the transaction is captured and committed, whose result is    *)
(* not looked at.  Results: the error returned and what the call did.      *)
(* In every case that took the inode lock (locked) the function unlocks    *)
(* the inode before it returns, so a continuation starts without the lock. *)
(*   k: address of the done item, s2: address of the intent the manager    *)
(*   logs for the queued continuation, o: the continuation's work item.    *)
xfs_attri_item_recover(M, s, iget, talloc, dq, iter, commit_ok, k, s2) ==
    LET a == M.a[s]
        none == [m |-> M, recs |-> <<>>, stepped |-> FALSE, down |-> FALSE,
                 cont |-> NULL, locked |-> FALSE, sterr |-> OK]
    IN
    IF ~xfs_attri_validate(a.d, hasdelattr)
    THEN [none EXCEPT !.m = M] @@ [error |-> EFSCORRUPTED]
    ELSE IF iget # OK THEN none @@ [error |-> iget]
    ELSE IF talloc # OK THEN none @@ [error |-> talloc]
    ELSE
    LET M1 == [M EXCEPT !.d[k] = xfs_trans_get_attrd(M.a, s)]
        r  == xfs_trans_attr_finish_update(dq, iter, a.d.op, TRUE)
        M2 == [M1 EXCEPT !.d[k].dirty = r.ddirty]
        drec == IF r.ddirty THEN <<DRec(M2.d[k], M2.a)>> ELSE <<>>
        (* releasing the done item at commit or cancel *)
        M3 == Tag(xfs_attrd_item_release(M2, k), s, "attrd")
    IN
    IF r.error = EAGAIN
    THEN IF commit_ok
         THEN LET na == [xfs_attr_log_payload(
                             xfs_attr_log_item(xfs_attri_init(s2), a.d),
                             <<>>, <<>>)
                           EXCEPT !.loc = "cil",
                                  !.lpos = Len(log) + Len(drec) + 1]
              IN [m |-> [M3 EXCEPT !.a[s2] = na],
                  recs |-> drec \o <<IRec(na)>>,
                  stepped |-> r.stepped, down |-> FALSE, cont |-> s2,
                  locked |-> TRUE, error |-> OK, sterr |-> r.error]
         ELSE [m |-> M3, recs |-> <<>>, stepped |-> r.stepped, down |-> TRUE,
               cont |-> NULL, locked |-> TRUE, error |-> OK,
               sterr |-> r.error]
    ELSE IF r.error # OK
    THEN xfs_attri_item_recover_cancel(M3, r)
    ELSE IF commit_ok
         THEN [m |-> M3, recs |-> drec, stepped |-> r.stepped, down |-> FALSE,
               cont |-> NULL, locked |-> TRUE, error |-> OK, sterr |-> OK]
         ELSE [m |-> M3, recs |-> <<>>, stepped |-> r.stepped, down |-> TRUE,
               cont |-> NULL, locked |-> TRUE, error |-> OK, sterr |-> OK]

IdleOps == { o \in Ops : ops[o].pc = "idle" }

RecoverItem(iget, talloc, dq, iter, commit_ok, k, s2) ==
    /\ mode = "replay"
    /\ FirstUnprocessed(ail, attri) # NULL
    /\ iter \in StepResults(0)
    (* inputs of calls that are not reached are left at one value *)
    /\ iget # OK => talloc = OK
    /\ (iget # OK \/ talloc # OK) => dq = OK
    /\ (iget # OK \/ talloc # OK \/ dq # OK) => iter = OK
    /\ (iget # OK \/ talloc # OK \/ dq # OK \/ iter \notin {OK, EAGAIN})
       => ~commit_ok
    /\ k \in FreeDSlots
    /\ s2 \in FreeSlots
    /\ commit_ok => ~shutdown
    /\ LET s   == FirstUnprocessed(ail, attri)
           p   == attri[s].lpos
           res == xfs_attri_item_recover(Mem, s, iget, talloc, dq, iter,
                                         commit_ok, k, s2)
           o   == CHOOSE x \in IdleOps : \A y \in IdleOps : x <= y
       IN  /\ Len(log) + Len(res.recs) <= MaxLog
           /\ res.cont # NULL => IdleOps # {}
           /\ SetMem([res.m EXCEPT !.a[s].proc = TRUE])
           /\ log' = log \o res.recs
           /\ shutdown' = (shutdown \/ res.down)
           /\ ops' = IF res.cont = NULL THEN ops
                     ELSE [ops EXCEPT ![o] = [NoOp EXCEPT !.pc = "ready",
                                                          !.d = attri[s].d,
                                                          !.ip = res.cont,
                                                          !.nretry = 1,
                                                          !.alive = TRUE,
                                                          !.held = FALSE]]
           /\ hist' = [hist EXCEPT !.ndrive[p] = @ + 1,
                                   !.nstep[p] = IF res.stepped THEN @ + 1 ELSE @,
                                   !.err[p] = res.error,
                                   !.sterr[p] = res.sterr]
    /\ UNCHANGED <<mode, scanpos, hasdelattr, crashes, queued>>

ReplayEnd ==
    /\ mode = "replay"
    /\ FirstUnprocessed(ail, attri) = NULL
    /\ mode' = "cont"
    /\ UNCHANGED <<attri, attrd, ail, log, ops, scanpos, shutdown, hasdelattr,
                   crashes, queued, bad, hist>>

(* recovery finalization: the driver drops the reference of every          *)
(* recovered intent that is still in the recovery list                     *)
RECURSIVE CancelIntents(_, _)
CancelIntents(M, l) ==
    IF l = <<>> THEN M
    ELSE IF M.a[Head(l)].rec /\ M.a[Head(l)].st = "live"
         THEN CancelIntents(Tag(xfs_attri_item_release(M, Head(l)), Head(l),
                                "cancel_intents"), Tail(l))
         ELSE CancelIntents(M, Tail(l))

RecoveryFinish ==
    /\ mode = "cont"
    /\ \A o \in Ops : ops[o].pc \in {"idle", "finished", "failed"}
    /\ SetMem(CancelIntents(Mem, ail))
    /\ ops' = [o \in Ops |-> NoOp]
    /\ mode' = "live"
    /\ hist' = [hist EXCEPT !.recdone = TRUE]
    /\ UNCHANGED <<log, scanpos, shutdown, hasdelattr, crashes, queued>>

(* the address the next allocation returns (one candidate when the pool is *)
(* used up, so that an action that allocates nothing stays enabled)        *)
SlotChoices  == IF FreeSlots = {} THEN {1} ELSE FreeSlots
DSlotChoices == IF FreeDSlots = {} THEN {1} ELSE FreeDSlots

Next ==
    \/ \E o \in Ops, d \in Descs : Queue(o, d)
    \/ \E o \in Ops, s \in SlotChoices, allocok \in BOOLEAN :
          xfs_attr_create_intent(o, s, allocok)
    \/ \E o \in Ops : DeferRoll(o)
    \/ \E o \in Ops : DeferRollFail(o)
    \/ \E o \in Ops, k \in DSlotChoices : xfs_attr_create_done(o, k)
    \/ \E o \in Ops, dq \in DqResults, iter \in {OK, EAGAIN, ENOSPC} :
          xfs_attr_finish_item(o, dq, iter)
    \/ \E o \in Ops : DeferCommit(o)
    \/ \E o \in Ops : DeferCommitFail(o)
    \/ \E s \in Slots : LogCommitted(s)
    \/ \E s \in Slots, abort \in BOOLEAN : ItemUnpin(s, abort)
    \/ \E c \in 0..MaxLog, what \in {"ilen", "ino", "nlen"} : Crash(c, what)
    \/ \E s \in FreeSlots : ScanIntent(s)
    \/ ScanDone
    \/ ScanEnd
    \/ \E iget \in IgetResults, talloc \in TallocResults, dq \in DqResults,
          iter \in {OK, EAGAIN, ENOSPC}, commit_ok \in BOOLEAN,
          k \in FreeDSlots, s2 \in FreeSlots :
          RecoverItem(iget, talloc, dq, iter, commit_ok, k, s2)
    \/ ReplayEnd
    \/ RecoveryFinish

Spec == Init /\ [][Next]_vars

(* ====================================================================== *)
(* The roll loop of the recover function that drives the whole operation  *)
(* itself (second xfs_attri_item_recover of xfs_attr_item.c): validate,   *)
(* look up the inode, allocate the transaction, get the done item, lock   *)
(* the inode once, then step and roll until the step stops asking for a   *)
(* retry, then commit.  The operation is kept in ops[1]; nroll counts     *)
(* xfs_trans_roll calls, nlock xfs_ilock calls, nretry -EAGAIN results.   *)
(* ====================================================================== *)
EFAULT == "EFAULT"

(* the state the scan leaves behind for a log of one intent record *)
RecoveredIntent(d) ==
    [xfs_attri_init(1) EXCEPT !.d = d, !.rec = TRUE, !.lpos = 1, !.loc = "ail",
                              !.refins = ATTRI_INIT_REFCOUNT, !.refcount = 1,
                              !.by = <<"pass2">>]

InitRoll ==
    /\ \E d \in Descs :
          /\ attri = [s \in Slots |-> IF s = 1 THEN RecoveredIntent(d) ELSE NoAttri]
          /\ log = <<IRec(RecoveredIntent(d))>>
    /\ attrd = [k \in DSlots |-> NoAttrd]
    /\ ail = <<1>>
    /\ ops = [o \in Ops |-> NoOp]
    /\ mode = "replay"
    /\ scanpos = 2
    /\ shutdown = FALSE
    /\ hasdelattr = TRUE
    /\ crashes = 1
    /\ queued = 0
    /\ bad = FALSE
    /\ hist = [NoHist EXCEPT !.log0 = log, !.seen[1] = TRUE]

(* the validity check at the head of the function *)
xfs_attri_item_recover_check(d) ==
    ~( \/ ~(d.op = XFS_ATTR_OP_FLAGS_SET \/ d.op = XFS_ATTR_OP_FLAGS_REMOVE)
       \/ d.vlen > XATTR_SIZE_MAX
       \/ d.nlen > XATTR_NAME_MAX
       \/ d.nlen = 0 )

(* xfs_trans_attr: the transaction and the done item are marked dirty     *)
(* whatever the iterator returns; a quota attach error returns before.    *)
xfs_trans_attr(dq, iter, op_flags) ==
    IF dq # OK
    THEN [error |-> dq, tdirty |-> FALSE, ddirty |-> FALSE, stepped |-> FALSE]
    ELSE [error   |-> IF op_flags \in {XFS_ATTR_OP_FLAGS_SET,
                                        XFS_ATTR_OP_FLAGS_REMOVE}
                      THEN iter ELSE EFSCORRUPTED,
          tdirty  |-> TRUE,
          ddirty  |-> TRUE,
          stepped |-> op_flags \in {XFS_ATTR_OP_FLAGS_SET,
                                    XFS_ATTR_OP_FLAGS_REMOVE}]

(* entry of the function up to the lock and the join of the inode *)
RollBegin(iget, talloc) ==
    /\ mode = "replay"
    /\ ops[1].pc = "idle"
    /\ attri[1].st = "live"
    /\ IF ~xfs_attri_item_recover_check(attri[1].d)
       THEN /\ SetMem(Tag(xfs_attri_release(Mem, 1), 1, "recover"))
            /\ ops' = [ops EXCEPT ![1].pc = "failed", ![1].err = EFSCORRUPTED,
                                  ![1].d = attri[1].d]
       ELSE IF iget # OK \/ talloc # OK
       THEN /\ ops' = [ops EXCEPT ![1].pc = "failed", ![1].d = attri[1].d,
                                  ![1].err = IF iget # OK THEN iget ELSE talloc]
            /\ UNCHANGED <<attri, attrd, ail, bad>>
       ELSE /\ attrd' = [attrd EXCEPT ![1] = xfs_trans_get_attrd(attri, 1)]
            /\ ops' = [ops EXCEPT ![1].pc = "loop", ![1].d = attri[1].d,
                                  ![1].ip = 1, ![1].dp = 1, ![1].nlock = @ + 1,
                                  ![1].alive = TRUE]
            /\ UNCHANGED <<attri, ail, bad>>
    /\ hist' = [hist EXCEPT !.ndrive[1] = @ + 1]
    /\ UNCHANGED <<log, mode, scanpos, shutdown, hasdelattr, crashes, queued>>

(* abort_error: cancel the transaction (a dirty one shuts the filesystem  *)
(* down), which releases the done item if it is still in it; unlock.      *)
RollAbort(M, td) ==
    /\ SetMem(IF M.d[1].st = "live"
              THEN Tag(xfs_attrd_item_release(M, 1), 1, "attrd") ELSE M)
    /\ shutdown' = (shutdown \/ td)

(* One pass of the do-while body: step, log the inode, roll, rejoin.  The *)
(* first roll commits the dirty done item, so its record reaches the log. *)
(* A later pass marks the done item dirty again; if the log has already   *)
(* committed and freed the item, that write goes to freed memory (ub      *)
(* chooses whether it is noticed).                                        *)
RollLoopBody(dq, iter, rollok, leaf, ub) ==
    /\ mode = "replay"
    /\ ops[1].pc = "loop"
    /\ iter \in StepResults(ops[1].nretry)
    /\ ub => attrd[1].st = "freed" /\ dq = OK
    /\ LET r  == xfs_trans_attr(dq, iter, ops[1].d.op)
           td == ops[1].tdirty \/ r.tdirty
           M0 == IF r.ddirty /\ attrd[1].st = "live"
                 THEN [Mem EXCEPT !.d[1].dirty = TRUE] ELSE Mem
           o1 == [ops[1] EXCEPT !.nstep = IF r.stepped THEN @ + 1 ELSE @,
                                !.leaf = leaf]
           drec == IF M0.d[1].st = "live" /\ M0.d[1].dirty /\ ops[1].nroll = 0
                   THEN <<DRec(M0.d[1], M0.a)>> ELSE <<>>
       IN  IF ub
           THEN /\ ops' = [ops EXCEPT ![1] = [o1 EXCEPT !.pc = "failed",
                                                        !.err = EFAULT,
                                                        !.alive = FALSE]]
                /\ bad' = TRUE
                /\ shutdown' = TRUE
                /\ UNCHANGED <<attri, attrd, ail, log>>
           ELSE IF (r.error # OK /\ r.error # EAGAIN) \/ ~rollok \/ shutdown
           THEN /\ ops' = [ops EXCEPT ![1] = [o1 EXCEPT
                              !.pc = "failed", !.alive = FALSE,
                              !.err = IF r.error # OK /\ r.error # EAGAIN
                                      THEN r.error ELSE EIO]]
                /\ RollAbort(M0, td)
                /\ log' = log
           ELSE /\ Len(log) + Len(drec) <= MaxLog
                /\ log' = log \o drec
                /\ SetMem(M0)
                /\ shutdown' = shutdown
                /\ ops' = [ops EXCEPT ![1] = [o1 EXCEPT
                              !.nroll = @ + 1, !.tdirty = FALSE,
                              !.nretry = IF r.error = EAGAIN THEN @ + 1 ELSE @,
                              !.pc = IF r.error = EAGAIN THEN "loop"
                                     ELSE "rolled"]]
    /\ hist' = [hist EXCEPT !.nstep[1] = ops'[1].nstep]
    /\ UNCHANGED <<mode, scanpos, hasdelattr, crashes, queued>>

(* xfs_attrd_item_committed, on the log's completion path: drop the       *)
(* intent's reference and free the done item                              *)
RollDoneCommitted ==
    /\ mode = "replay"
    /\ ops[1].nroll > 0
    /\ attrd[1].st = "live"
    /\ SetMem(Tag(xfs_attrd_item_release(Mem, 1), 1, "attrd"))
    /\ UNCHANGED <<log, ops, mode, scanpos, shutdown, hasdelattr, crashes,
                   queued, hist>>

(* the commit after the loop, then unlock and release of the inode *)
RollCommit(commit_ok) ==
    /\ mode = "replay"
    /\ ops[1].pc = "rolled"
    /\ IF commit_ok /\ ~shutdown
       THEN /\ ops' = [ops EXCEPT ![1].pc = "finished", ![1].alive = FALSE]
            /\ UNCHANGED <<attri, attrd, ail, bad, shutdown>>
       ELSE /\ ops' = [ops EXCEPT ![1].pc = "failed", ![1].err = EIO,
                                  ![1].alive = FALSE]
            /\ RollAbort(Mem, ops[1].tdirty)
    /\ hist' = [hist EXCEPT !.err[1] = ops'[1].err]
    /\ UNCHANGED <<log, mode, scanpos, hasdelattr, crashes, queued>>

NextRoll ==
    \/ \E iget \in IgetResults, talloc \in TallocResults : RollBegin(iget, talloc)
    \/ \E dq \in DqResults, iter \in {OK, EAGAIN, ENOSPC},
          rollok \in BOOLEAN, leaf \in BOOLEAN, ub \in BOOLEAN :
          RollLoopBody(dq, iter, rollok, leaf, ub)
    \/ RollDoneCommitted
    \/ \E commit_ok \in BOOLEAN : RollCommit(commit_ok)

SpecRoll == InitRoll /\ [][NextRoll]_vars

TypeOK ==
    /\ \A s \in Slots : attri[s].st \in {"none", "live", "freed", "gone"}
    /\ mode \in {"live", "scan", "replay", "cont"}
    /\ Len(log) <= MaxLog

(* ====================================================================== *)
(* Properties                                                             *)
(* ====================================================================== *)
Allocated(s) == attri[s].st \in {"live", "freed"}

(* the log record at position p of log l has a done record written for it *)
Matched(l, p) == \E q \in 1..Len(l) : l[q].t = "D" /\ l[q].ipos = p

(* the recovery run of this boot is past its replay phase *)
ReplayOver == crashes > 0 /\ mode \in {"cont", "live"}

(* C1: an intent is created with reference count 2, each release lowers   *)
(* the count by exactly one, and the intent is freed and out of the AIL   *)
(* exactly when the count is zero: a live intent has count 1 or 2.        *)
C1_RefcountLifecycle ==
    \A s \in Slots : Allocated(s) =>
        /\ attri[s].refcount = ATTRI_INIT_REFCOUNT - Len(attri[s].by)
        /\ attri[s].st = "live" <=> attri[s].refcount > 0
        /\ attri[s].st = "live" => attri[s].refcount \in {1, 2}
        /\ attri[s].st = "freed" => attri[s].refcount = 0 /\ ~InAil(ail, s)
        /\ attri[s].st = "live" /\ attri[s].loc = "ail" => InAil(ail, s)

C1_Witness ==
    \E s \in Slots : /\ attri[s].st = "freed"
                     /\ attri[s].refcount = 0
                     /\ Len(attri[s].by) = 2
                     /\ attri[s].loc = "unpinned"

(* C2: whichever of the unpin callback, the abort handler, the done item  *)
(* and recovery finalization release an intent, it is freed at most once  *)
(* and release is never applied to a freed or zero-count intent.          *)
C2_ReleaseAtMostOnceFreed ==
    /\ ~bad
    /\ \A s \in Slots : attri[s].frees <= 1
    /\ \A k \in DSlots : attrd[k].frees <= 1

C2_Witness ==
    /\ \E s \in Slots : /\ attri[s].st = "freed"
                        /\ attri[s].by = <<"item_release", "abort_intent">>
    /\ \E s \in Slots : /\ attri[s].st = "freed"
                        /\ attri[s].by = <<"attrd", "unpin">>

(* C3: the unpin release and the done item's release of one intent come   *)
(* in either order, also with the done item's release before the AIL      *)
(* insertion; the first of the two leaves the intent live, the second     *)
(* frees it, and after both it is neither live nor in the AIL.            *)
C3_UnpinDoneEitherOrder ==
    \A s \in Slots :
        /\ attri[s].by \in {<<"unpin">>, <<"attrd">>} =>
               attri[s].st = "live" /\ attri[s].refcount = 1
        /\ attri[s].by \in {<<"unpin", "attrd">>, <<"attrd", "unpin">>} =>
               /\ attri[s].st = "freed"
               /\ attri[s].frees = 1
               /\ ~InAil(ail, s)

(* the done item released its reference before the intent was inserted    *)
(* into the AIL, and the unpin that followed the insertion freed it       *)
C3_Witness ==
    \E s \in Slots : /\ attri[s].by = <<"attrd", "unpin">>
                     /\ attri[s].st = "freed"
                     /\ attri[s].refins = 1

(* C4: a live operation with a valid descriptor whose step returned       *)
(* SUCCESS and never RETRY has, after the commit and the unpin callback,  *)
(* both its intent and its done item freed and the reference count zero.  *)
C4_SuccessFreesBoth ==
    \A o \in Ops :
        ( /\ mode = "live"
          /\ ops[o].pc = "finished"
          /\ ValidDesc(ops[o].d)
          /\ ops[o].nretry = 0
          /\ ops[o].ip # NULL
          /\ \E i \in 1..Len(attri[ops[o].ip].by) : attri[ops[o].ip].by[i] = "unpin" )
        => /\ attri[ops[o].ip].st = "freed"
           /\ attri[ops[o].ip].refcount = 0
           /\ ops[o].dp # NULL
           /\ attrd[ops[o].dp].st = "freed"

C4_Witness ==
    \E o \in Ops :
        /\ mode = "live"
        /\ ops[o].pc = "finished"
        /\ ValidDesc(ops[o].d)
        /\ ops[o].nretry = 0
        /\ ops[o].nstep = 1
        /\ ops[o].ip # NULL
        /\ attri[ops[o].ip].by = <<"unpin", "attrd">>
        /\ attrd[ops[o].dp].st = "freed"

(* C5: when the step returns RETRY exactly N times before SUCCESS, the    *)
(* driver makes exactly N transaction rolls and takes the inode's         *)
(* exclusive lock exactly once.                                           *)
C5_RollsEqualRetries ==
    \A o \in Ops :
        (ops[o].pc = "finished" /\ ops[o].nlock > 0) =>
            /\ ops[o].nroll = ops[o].nretry
            /\ ops[o].nlock = 1

(* the scan's decoder accepts log record r *)
Decodable(r) == xlog_recover_attri_commit_pass2(Mem, r, 1, 1).error = OK

(* every intent record of log l has its done record *)
AllMatched(l) == \A p \in 1..Len(l) : l[p].t = "I" => Matched(l, p)

(* a recovery run calls the recover function at most once per intent, and *)
(* the function makes at most one step                                    *)
DrivenAtMostOnce ==
    \A p \in LogPos : hist.ndrive[p] <= 1 /\ hist.nstep[p] <= hist.ndrive[p]

C7_DoneCancelsIntent ==
    /\ [][ ( /\ mode = "scan"
             /\ scanpos <= Len(log)
             /\ log[scanpos].t = "D"
             /\ scanpos' = scanpos + 1
             /\ FirstMatch(ail, attri, log[scanpos].id) # NULL )
           => LET s == FirstMatch(ail, attri, log[scanpos].id)
              IN  /\ attri'[s].st = "freed"
                  /\ ~InAil(ail', s)
                  /\ attri[s].lpos = log[scanpos].ipos ]_vars
    /\ [](\A p \in 1..Len(hist.log0) :
              (hist.log0[p].t = "I" /\ Matched(hist.log0, p)) =>
                  hist.nstep[p] = 0 /\ hist.ndrive[p] = 0)

C7_Witness ==
    /\ mode = "replay"
    /\ \E s \in Slots : /\ attri[s].st = "freed"
                        /\ attri[s].by = <<"pass2", "recover_release">>
                        /\ Matched(hist.log0, attri[s].lpos)

(* C8: a done record whose id matches no intent in the AIL leaves the AIL *)
(* and the reference count of every intent unchanged and reports no       *)
(* error.                                                                 *)
C8_UnmatchedDoneNoOp ==
    [][ ( /\ mode = "scan"
          /\ scanpos <= Len(log)
          /\ log[scanpos].t = "D"
          /\ scanpos' = scanpos + 1
          /\ FirstMatch(ail, attri, log[scanpos].id) = NULL )
        => /\ ail' = ail
           /\ \A s \in Slots : attri'[s] = attri[s]
           /\ hist'.derr = hist.derr
           /\ bad' = bad ]_vars

(* the scan has just decoded a done record whose intent record it had     *)
(* rejected, so that no recovered intent carries the id                   *)
C8_Witness ==
    /\ mode = "scan"
    /\ scanpos > 1
    /\ log[scanpos - 1].t = "D"
    /\ hist.seen[scanpos - 1]
    /\ hist.derr = 0
    /\ \A s \in Slots : Allocated(s) => attri[s].id # log[scanpos - 1].id

(* what C9 calls an invalid intent record *)
InvalidRec(r) ==
    \/ r.d.nlen = 0
    \/ r.d.nlen > XATTR_NAME_MAX
    \/ r.d.vlen > XATTR_SIZE_MAX
    \/ r.d.op \notin {XFS_ATTR_OP_FLAGS_SET, XFS_ATTR_OP_FLAGS_REMOVE}
    \/ r.ilen # FMT_SIZE
    \/ ~xfs_verify_ino(r.d.ino)

(* C9: recovery discards an invalid intent as a whole: no step is made    *)
(* for it, the decoder or the recover function returns the corruption     *)
(* error, and no recovered intent outlives the recovery run.              *)
C9_InvalidIntentDiscarded ==
    /\ \A p \in 1..Len(hist.log0) :
           (hist.log0[p].t = "I" /\ InvalidRec(hist.log0[p])) =>
               /\ hist.nstep[p] = 0
               /\ (hist.seen[p] /\ ~Decodable(hist.log0[p])) =>
                      hist.err[p] = EFSCORRUPTED
               /\ (hist.ndrive[p] > 0
                     \/ (ReplayOver /\ ~Matched(hist.log0, p))) =>
                      hist.err[p] = EFSCORRUPTED
    /\ (crashes > 0 /\ mode = "live") =>
           \A s \in Slots : attri[s].rec => attri[s].st = "freed"

(* the recover function has refused an invalid intent the decoder let in  *)
C9_Witness ==
    \E p \in 1..Len(hist.log0) :
        /\ hist.log0[p].t = "I"
        /\ InvalidRec(hist.log0[p])
        /\ Decodable(hist.log0[p])
        /\ hist.ndrive[p] = 1
        /\ hist.err[p] = EFSCORRUPTED
        /\ hist.nstep[p] = 0

(* C10: xfs_attr_create_intent never adds to a transaction an intent with *)
(* name length zero, value length over the maximum or an unrecognized op  *)
(* kind.                                                                  *)
C10_CreateRejectsInvalid ==
    \A s \in Slots :
        (Allocated(s) /\ ~attri[s].rec) =>
            /\ attri[s].d.nlen # 0
            /\ attri[s].d.vlen <= XATTR_SIZE_MAX
            /\ attri[s].d.op \in {XFS_ATTR_OP_FLAGS_SET, XFS_ATTR_OP_FLAGS_REMOVE}

(* C11: the scan validates every decoded intent before it inserts it: an  *)
(* intent record that fails validation (size mismatch, zero name length,  *)
(* over-limit lengths, unknown op kind, invalid owner id) never gets into *)
(* the AIL, a valid one is inserted at its log sequence number.           *)
C11_ScanInsertsOnlyValid ==
    \A s \in Slots :
        (attri[s].rec /\ Allocated(s)) =>
            /\ attri[s].lpos \in 1..Len(hist.log0)
            /\ hist.log0[attri[s].lpos].t = "I"
            /\ ~InvalidRec(hist.log0[attri[s].lpos])
            /\ attri[s].refins = ATTRI_INIT_REFCOUNT

(* ====================================================================== *)
(* Log format and decode of one intent, byte by byte                      *)
(* ====================================================================== *)
MaxNameBytes  == 4
MaxValueBytes == 4
INT32_SIZE    == 4
ByteVals      == {1, 2}
PadBytes      == {0, 1}
AttrFilters   == {0, 1}

RECURSIVE ByteSeqs(_)
ByteSeqs(n) ==
    IF n = 0 THEN {<<>>}
    ELSE { Append(q, b) : q \in ByteSeqs(n - 1), b \in ByteVals }

CodecDescs == [ino : ValidInos,
               op : {XFS_ATTR_OP_FLAGS_SET, XFS_ATTR_OP_FLAGS_REMOVE},
               nlen : 1..MaxNameBytes, vlen : 0..MaxValueBytes,
               filter : AttrFilters]

round_up(x, y) == ((x + y - 1) \div y) * y

(* variant: the region is cut down to whole words *)
ATTR_NVEC_SIZE_down(size) == (size \div INT32_SIZE) * INT32_SIZE

(* ATTR_NVEC_SIZE: iovec length must be 32-bit aligned *)
ATTR_NVEC_SIZE(size) ==
    IF size = INT32_SIZE THEN size
    ELSE INT32_SIZE + round_up(size, INT32_SIZE)

(* ATTR_NVEC_SIZE, the macro of the header *)
ATTR_NVEC_SIZE_h(size) ==
    IF size = INT32_SIZE THEN INT32_SIZE
    ELSE size + INT32_SIZE - (size % INT32_SIZE)

(* xlog_copy_iovec: len bytes starting at buf; what lies behind the end of *)
(* the buffer is whatever the caller's memory holds there (pad).          *)
xlog_copy_iovec(buf, len, pad) ==
    [i \in 1..len |-> IF i <= Len(buf) THEN buf[i] ELSE pad]

(* variant: the name region is not counted *)
xfs_attri_item_size_noname(a) == IF a.d.vlen > 0 THEN 2 ELSE 1

(* xfs_attri_item_size: the number of regions of the record *)
xfs_attri_item_size(a) == IF a.d.vlen > 0 THEN 3 ELSE 2

(* xfs_attri_item_size: the bytes of the regions of the record *)
xfs_attri_item_size_nbytes(a) ==
    FMT_SIZE + ATTR_NVEC_SIZE(a.d.nlen)
             + (IF a.d.vlen > 0 THEN ATTR_NVEC_SIZE(a.d.vlen) ELSE 0)

(* xfs_attri_item_format: alfi_size starts at 1 for the format region, is *)
(* incremented for the name and once more for a value that is not empty   *)
alfi_size(a) == (1 + 1) + (IF a.d.vlen > 0 THEN 1 ELSE 0)

(* xfs_attri_item_format: the format region, the name region and, when    *)
(* the value length is positive, the value region                          *)
xfs_attri_item_format(a, pad) ==
    [t |-> "I", id |-> a.id, d |-> a.d, ilen |-> FMT_SIZE, ipos |-> 0,
     nvecs |-> alfi_size(a),
     name  |-> xlog_copy_iovec(a.name, ATTR_NVEC_SIZE(a.d.nlen), pad),
     value |-> IF a.d.vlen > 0
               THEN xlog_copy_iovec(a.value, ATTR_NVEC_SIZE(a.d.vlen), pad)
               ELSE <<>>]

(* xlog_recover_attri_commit_pass2, the payload part: name_len bytes of    *)
(* the name region and value_len bytes of the value region                 *)
xlog_recover_attri_payload(a, r) ==
    [a EXCEPT !.name  = memcpy(r.name, r.d.nlen),
              !.value = IF r.d.vlen > 0 THEN memcpy(r.value, r.d.vlen)
                        ELSE <<>>,
              !.hasbuf = TRUE]

InitCodec ==
    /\ \E d \in CodecDescs :
       \E nm \in ByteSeqs(d.nlen), vl \in ByteSeqs(d.vlen) :
          attri = [s \in Slots |->
                     IF s = 1
                     THEN xfs_attr_log_payload(
                              xfs_attr_log_item(xfs_attri_init(1), d), nm, vl)
                     ELSE NoAttri]
    /\ attrd = [k \in DSlots |-> NoAttrd]
    /\ ail = <<>>
    /\ log = <<>>
    /\ ops = [o \in Ops |-> NoOp]
    /\ mode = "live"
    /\ scanpos = 0
    /\ shutdown = FALSE
    /\ hasdelattr = TRUE
    /\ crashes = 0
    /\ queued = 0
    /\ bad = FALSE
    /\ hist = NoHist

(* the intent is written to the log *)
CodecFormat(pad) ==
    /\ scanpos = 0
    /\ log' = <<xfs_attri_item_format(attri[1], pad)>>
    /\ scanpos' = 1
    /\ UNCHANGED <<attri, attrd, ail, ops, mode, shutdown, hasdelattr,
                   crashes, queued, bad, hist>>

(* the record is decoded into a fresh item *)
CodecDecode ==
    /\ scanpos = 1
    /\ LET r   == log[1]
           res == xlog_recover_attri_commit_pass2(Mem, r, 2, 1)
       IN  /\ SetMem(IF res.error = OK
                     THEN [res.m EXCEPT
                             !.a[2] = xlog_recover_attri_payload(@, r)]
                     ELSE res.m)
           /\ hist' = [hist EXCEPT !.err[1] = res.error, !.seen[1] = TRUE,
                                   !.log0 = log]
    /\ scanpos' = 2
    /\ mode' = "scan"
    /\ UNCHANGED <<log, ops, shutdown, hasdelattr, crashes, queued>>

NextCodec ==
    \/ \E pad \in PadBytes : CodecFormat(pad)
    \/ CodecDecode

SpecCodec == InitCodec /\ [][NextCodec]_vars

SameIntent(src, dst) ==
    /\ dst.st = "live"
    /\ dst.id = src.id
    /\ dst.d = src.d
    /\ dst.hasbuf
    /\ dst.name = src.name
    /\ dst.value = src.value

NullReads == {"oops", "read"}

(* xfs_attri_item_relog: mark the transaction dirty (the caller's tdirty), *)
(* get a dirty done item for the old intent, build a new intent with the   *)
(* old one's format fields and copies of its name and value, add it to the *)
(* transaction and dirty it.  ub tells what the copy out of a NULL name    *)
(* pointer does.                                                           *)
xfs_attri_item_relog(M, s, k, s2, ub) ==
    LET old  == M.a[s]
        M1   == [M EXCEPT !.d[k] = [xfs_trans_get_attrd(M.a, s)
                                      EXCEPT !.dirty = TRUE]]
        new0 == [xfs_attri_init(s2) EXCEPT !.d = old.d]
    IN  IF ~old.hasbuf /\ ub = "oops"
        THEN [M1 EXCEPT !.a[s2] = new0, !.b = TRUE]
        ELSE [M1 EXCEPT !.a[s2] =
                [new0 EXCEPT !.name = memcpy(old.name, old.d.nlen),
                             !.value = IF old.d.vlen > 0
                                       THEN memcpy(old.value, old.d.vlen)
                                       ELSE <<>>,
                             !.hasbuf = TRUE,
                             !.dirty = TRUE]]

RelogDescs ==
    { d \in CodecDescs : /\ d.filter = 0
                         /\ d.nlen \in {1, INT32_SIZE}
                         /\ d.vlen \in {0, 1}
                         /\ d.op = XFS_ATTR_OP_FLAGS_REMOVE => d.vlen = 0 }

(* Either an operation whose intent was rolled into the log and waits in   *)
(* the committed item list, or a log holding one intent that the scan of   *)
(* log recovery decoded into the AIL.                                      *)
InitRelog ==
    /\ \E d \in RelogDescs, rec \in BOOLEAN :
       \E nm \in ByteSeqs(d.nlen), vl \in ByteSeqs(d.vlen) :
          LET a0 == xfs_attr_log_payload(
                        xfs_attr_log_item(xfs_attri_init(1), d), nm, vl)
              r  == xfs_attri_item_format(a0, 0)
              M0 == [a |-> [s \in Slots |-> NoAttri],
                     d |-> [k \in DSlots |-> NoAttrd], l |-> <<>>, b |-> FALSE]
              M1 == xlog_recover_attri_commit_pass2(M0, r, 1, 1).m
          IN  /\ log = <<r>>
              /\ hist = [NoHist EXCEPT !.log0 = IF rec THEN log ELSE <<>>,
                                       !.seen[1] = rec]
              /\ mode = IF rec THEN "replay" ELSE "live"
              /\ crashes = IF rec THEN 1 ELSE 0
              /\ scanpos = IF rec THEN 2 ELSE 0
              /\ IF rec
                 THEN /\ attri = [M1.a EXCEPT
                                    ![1] = xlog_recover_attri_payload(@, r)]
                      /\ ail = M1.l
                      /\ ops = [o \in Ops |-> NoOp]
                 ELSE /\ attri = [M0.a EXCEPT
                                    ![1] = [a0 EXCEPT !.loc = "cil", !.lpos = 1]]
                      /\ ail = <<>>
                      /\ ops = [o \in Ops |->
                                  IF o = 1
                                  THEN [NoOp EXCEPT !.pc = "ready", !.d = d,
                                                    !.ip = 1, !.alive = TRUE,
                                                    !.nroll = 1, !.name = nm,
                                                    !.value = vl]
                                  ELSE NoOp]
    /\ attrd = [k \in DSlots |-> NoAttrd]
    /\ shutdown = FALSE
    /\ hasdelattr = TRUE
    /\ queued = 0
    /\ bad = FALSE

(* xfs_defer_relog: the manager relogs the intent of a pending work item   *)
(* and goes on with the new intent                                         *)
Relog(o, k, s2, ub) ==
    /\ Running(o)
    /\ ops[o].pc = "ready"
    /\ ops[o].ip # NULL
    /\ attri[ops[o].ip].st = "live"
    /\ k \in FreeDSlots
    /\ s2 \in FreeSlots
    /\ attri[ops[o].ip].hasbuf => ub = "read"
    /\ SetMem(xfs_attri_item_relog(Mem, ops[o].ip, k, s2, ub))
    /\ ops' = [ops EXCEPT ![o].pc = "intent", ![o].ip = s2, ![o].dp = k,
                          ![o].tdirty = TRUE]
    /\ UNCHANGED <<log, mode, scanpos, shutdown, hasdelattr, crashes, queued,
                   hist>>

NextRelog ==
    \/ \E o \in Ops, k \in DSlots, s2 \in Slots, ub \in NullReads :
          ~bad /\ Relog(o, k, s2, ub)
    \/ \E s \in Slots : ~bad /\ LogCommitted(s)
    \/ \E s \in Slots : ~bad /\ ItemUnpin(s, FALSE)
    \/ \E o \in Ops : ~bad /\ DeferRoll(o)
    \/ \E o \in Ops, k \in DSlots : ~bad /\ xfs_attr_create_done(o, k)
    \/ \E iget \in IgetResults, talloc \in TallocResults, dq \in DqResults,
          iter \in {OK, EAGAIN, ENOSPC}, commit_ok \in BOOLEAN,
          k \in DSlots, s2 \in Slots :
          ~bad /\ RecoverItem(iget, talloc, dq, iter, commit_ok, k, s2)

SpecRelog == InitRelog /\ [][NextRelog]_vars

(* C13: relogging any unfinished intent, also one whose committed callback *)
(* already ran, creates a new intent with the same owner id, op kind,      *)
(* flags, lengths and name and value bytes, creates a done item for the    *)
(* old intent, and marks the transaction, that done item and the new       *)
(* intent dirty.                                                           *)
C13_RelogCopiesIntent ==
    \A o \in Ops : ops[o].pc = "intent" =>
        LET new == attri[ops[o].ip]
            dn  == attrd[ops[o].dp]
        IN  /\ ~bad
            /\ new.st = "live" /\ new.dirty
            /\ new.d = ops[o].d
            /\ new.name = ops[o].name
            /\ new.value = ops[o].value
            /\ dn.st = "live" /\ dn.dirty
            /\ dn.attrip # ops[o].ip
            /\ attri[dn.attrip].d = ops[o].d
            /\ ops[o].tdirty

DonesOf(s) == { k \in DSlots : /\ attrd[k].st \in {"live", "freed"}
                               /\ attrd[k].attrip = s }

(* C20: at most one done item is ever created for a given intent, so at    *)
(* most one live done item references it: the relog gets the done item of  *)
(* the old intent and the manager the one of the new intent, and the       *)
(* recover function gets the only one of a recovered intent.               *)
C20_OneDonePerIntent ==
    \A s \in Slots : Cardinality(DonesOf(s)) <= 1

C20_Witness ==
    \E o \in Ops :
        /\ ops[o].pc = "havedone"
        /\ ops[o].dp # NULL
        /\ attrd[ops[o].dp].st = "live"
        /\ attrd[ops[o].dp].attrip = ops[o].ip
        /\ \E k \in DSlots : /\ attrd[k].st = "freed"
                             /\ attrd[k].attrip # ops[o].ip
                             /\ attri[attrd[k].attrip].d = attri[ops[o].ip].d

(* C14: every call of the step wrapper leaves the transaction dirty,       *)
(* whatever its result (a failed quota attach included), and leaves the    *)
(* done item dirty when there is one.                                      *)
C14_StepLeavesDirty ==
    \A o \in Ops :
        (\/ ops[o].pc = "stepped"
         \/ ops[o].pc = "queued" /\ ops[o].nretry > 0
         \/ ops[o].pc = "failed" /\ ops[o].err \notin {OK, EIO})
        => /\ ops[o].tdirty
           /\ ops[o].dp # NULL => attrd[ops[o].dp].dirty

(* C15: when a step ends in FAILURE the driver cancels the transaction and *)
(* returns that error: the recover function writes nothing to the log and  *)
(* reports the step's error, so the intent gets no done record; the live   *)
(* operation whose step failed ends with that error, its done item is      *)
(* freed and never written to the log.                                     *)
C15_FailureCancelsAndReturns ==
    /\ \A p \in LogPos :
          hist.sterr[p] \notin {OK, EAGAIN}
          => /\ hist.err[p] = hist.sterr[p]
             /\ ~Matched(log, p)
    /\ \A o \in Ops :
          (ops[o].pc = "failed" /\ ops[o].err \notin {OK, EIO})
          => (ops[o].dp # NULL =>
                /\ attrd[ops[o].dp].st = "freed"
                /\ ~Matched(log, attri[attrd[ops[o].dp].attrip].lpos))

C15_Witness ==
    /\ mode = "replay"
    /\ \E p \in LogPos : /\ hist.ndrive[p] = 1
                         /\ hist.nstep[p] = 1
                         /\ hist.sterr[p] = ENOSPC
                         /\ hist.err[p] = ENOSPC
                         /\ ~Matched(log, p)

(* references of intent s dropped by caller who *)
NDrops(s, who) == Len(SelectSeq(attri[s].by, LAMBDA x : x = who))

(* C16: when a step fails, cancelling the transaction drops the done       *)
(* item's reference on its intent exactly once and frees the done item     *)
(* exactly once, on the first step and after rolls; an intent that has no  *)
(* done item yet loses that reference exactly once through                 *)
(* xfs_attr_abort_intent.  No intent loses it both ways.                   *)
C16_FailureDropsDoneRefOnce ==
    /\ \A k \in DSlots :
          attrd[k].st \in {"live", "freed"} =>
              (attrd[k].frees = IF attrd[k].st = "freed" THEN 1 ELSE 0)
    /\ \A s \in Slots :
          Allocated(s) => NDrops(s, "attrd") + NDrops(s, "abort_intent") <= 1
    /\ \A o \in Ops :
          ops[o].pc = "failed" =>
            LET ip == ops[o].ip
                dp == ops[o].dp
            IN  /\ dp # NULL =>
                      /\ attrd[dp].st = "freed"
                      /\ NDrops(attrd[dp].attrip, "attrd") = 1
                      /\ attri[attrd[dp].attrip].refcount
                           = ATTRI_INIT_REFCOUNT - Len(attri[attrd[dp].attrip].by)
                /\ (ip # NULL /\ (dp = NULL \/ attrd[dp].attrip # ip)) =>
                      /\ NDrops(ip, "abort_intent") = 1
                      /\ attri[ip].refcount
                           = ATTRI_INIT_REFCOUNT - Len(attri[ip].by)
    /\ \A s \in Slots :
          (/\ Allocated(s) /\ attri[s].rec
           /\ attri[s].lpos \in LogPos
           /\ hist.sterr[attri[s].lpos] \notin {OK, EAGAIN})
          => /\ NDrops(s, "attrd") = 1
             /\ attri[s].st = "freed"

C16_Witness ==
    \E o \in Ops :
        /\ ops[o].pc = "failed"
        /\ ops[o].err = ENOSPC
        /\ ops[o].nretry > 0
        /\ ops[o].dp # NULL
        /\ attrd[ops[o].dp].frees = 1
        /\ attrd[ops[o].dp].attrip = ops[o].ip
        /\ NDrops(ops[o].ip, "attrd") = 1

C18_LockHeldUntilEnd ==
    \A o \in Ops :
        (InProgress(o) /\ (ops[o].nretry > 0 \/ ops[o].nstep > 0))
            => ops[o].held

(* ====================================================================== *)
(* The inode lock around the step of the recover function, seen from      *)
(* several threads                                                        *)
(* ====================================================================== *)
MaxThreads == 2
MaxInos    == 2
Threads    == 1..MaxThreads
LockInos   == 1..MaxInos

(* variant: one lock for all inodes *)
xfs_ilock_global(O, t) ==
    \A t2 \in DOMAIN O : t2 # t => ~O[t2].held

(* xfs_ilock(ip, XFS_ILOCK_EXCL) can return for thread t: no other thread  *)
(* holds the exclusive lock of the same inode                              *)
xfs_ilock(O, t) ==
    \A t2 \in DOMAIN O : (t2 # t /\ O[t2].d.ino = O[t].d.ino) => ~O[t2].held

InitLock ==
    /\ \E f \in [Threads -> LockInos] :
          ops = [t \in Threads |->
                   [NoOp EXCEPT !.pc = "start", !.alive = TRUE,
                                !.d = [ino |-> f[t], op |-> XFS_ATTR_OP_FLAGS_SET,
                                       nlen |-> 1, vlen |-> 0]]]
    /\ attri = [s \in Slots |-> NoAttri]
    /\ attrd = [k \in DSlots |-> NoAttrd]
    /\ ail = <<>>
    /\ log = <<>>
    /\ mode = "replay"
    /\ scanpos = 0
    /\ shutdown = FALSE
    /\ hasdelattr = TRUE
    /\ crashes = 0
    /\ queued = 0
    /\ bad = FALSE
    /\ hist = NoHist

LockRest == <<attri, attrd, ail, log, mode, scanpos, shutdown, hasdelattr,
              crashes, queued, bad, hist>>

(* xfs_ilock, xfs_trans_ijoin *)
LockIlock(t) ==
    /\ ops[t].pc = "start"
    /\ xfs_ilock(ops, t)
    /\ ops' = [ops EXCEPT ![t].pc = "locked", ![t].held = TRUE,
                          ![t].nlock = @ + 1]
    /\ UNCHANGED LockRest

(* the step is entered ... *)
LockStepBegin(t) ==
    /\ ops[t].pc = "locked"
    /\ ops' = [ops EXCEPT ![t].pc = "step"]
    /\ UNCHANGED LockRest

(* ... and returns *)
LockStepEnd(t, dq, iter) ==
    /\ ops[t].pc = "step"
    /\ dq # OK => iter = OK
    /\ LET r == xfs_trans_attr_finish_update(dq, iter, ops[t].d.op, TRUE)
       IN  ops' = [ops EXCEPT ![t].pc = "stepped", ![t].err = r.error,
                              ![t].tdirty = r.tdirty,
                              ![t].nstep = IF r.stepped THEN @ + 1 ELSE @]
    /\ UNCHANGED LockRest

(* commit or cancel, then xfs_iunlock and xfs_irele *)
LockIunlock(t) ==
    /\ ops[t].pc = "stepped"
    /\ ops' = [ops EXCEPT ![t].pc = IF ops[t].err \in {OK, EAGAIN}
                                    THEN "finished" ELSE "failed",
                          ![t].held = FALSE, ![t].tdirty = FALSE,
                          ![t].alive = FALSE]
    /\ UNCHANGED LockRest

NextLock ==
    \/ \E t \in Threads : LockIlock(t)
    \/ \E t \in Threads : LockStepBegin(t)
    \/ \E t \in Threads, dq \in DqResults, iter \in {OK, EAGAIN, ENOSPC} :
          LockStepEnd(t, dq, iter)
    \/ \E t \in Threads : LockIunlock(t)

SpecLock == InitLock /\ [][NextLock]_vars

InStep(t) == ops[t].pc \in {"locked", "step", "stepped"}

MaxBlks == 2      \* blocks a value needs, blocks an old value occupies
(* more step calls than an operation can need: one per block to allocate  *)
(* and per block to remove, and the steps between                         *)
MaxSteps == 2 * MaxBlks + 3

(* enum xfs_delattr_state *)
XFS_DAS_INIT       == 1
XFS_DAS_RM_SHRINK  == 2
XFS_DAS_FOUND_LBLK == 3
XFS_DAS_FOUND_NBLK == 4
XFS_DAS_FLIP_LFLAG == 5
XFS_DAS_RM_LBLK    == 6
XFS_DAS_ALLOC_NODE == 7
XFS_DAS_FLIP_NFLAG == 8
XFS_DAS_RM_NBLK    == 9

LeafBuf == 1      \* the buffer of the attribute leaf block

Forks == [oneblk : BOOLEAN, space : BOOLEAN, rename : BOOLEAN,
          shrink : BOOLEAN, nalloc : 0..MaxBlks, nrm : 0..MaxBlks]

(* the drivers: xfs_attr_finish_item under the manager, the recover       *)
(* function that makes the first step and hands the rest to the manager,  *)
(* the earlier xfs_attr_finish_item, and the two earlier recover          *)
(* functions that loop over the step themselves                           *)
Drivers == {"finish_item", "recover", "finish_item2", "recover2", "recover0"}

(* variant: a pass over the blocks that takes none away *)
xfs_attr_rmtval_set_blk_stuck(blkcnt) == blkcnt

(* one pass over the blocks still to allocate or to remove takes one away *)
xfs_attr_rmtval_set_blk(blkcnt) == IF blkcnt > 0 THEN blkcnt - 1 ELSE 0

(* results of one call of the iterator: -EAGAIN with the state to resume  *)
(* in, or the end of the operation                                        *)
IterAgain(dac, f, st) == [error |-> EAGAIN, dac |-> [dac EXCEPT !.dela_state = st],
                          f |-> f]
IterDone(dac, f)      == [error |-> OK, dac |-> dac, f |-> f]

(* the tail of both add paths: a rename flips the incomplete flag and     *)
(* comes back to remove the old name                                      *)
IterRename(dac, f, st) == IF f.rename THEN IterAgain(dac, f, st) ELSE IterDone(dac, f)

(* the removal of the old name's blocks, one pass per call *)
IterRemoveOld(dac, f, st) ==
    LET n == xfs_attr_rmtval_set_blk(f.nrm)
    IN  IF n > 0 THEN IterAgain(dac, [f EXCEPT !.nrm = n], st)
        ELSE IterDone(dac, [f EXCEPT !.nrm = n])

(* xfs_attr_set_iter, after its state machine diagram *)
xfs_attr_set_iter(dac, f) ==
    CASE dac.dela_state \in {0, XFS_DAS_INIT} ->
            IF f.oneblk /\ f.space
            THEN IterAgain([dac EXCEPT !.leaf_bp = LeafBuf], f, XFS_DAS_FOUND_LBLK)
            ELSE IterAgain(dac, f, XFS_DAS_FOUND_NBLK)
      [] dac.dela_state = XFS_DAS_FOUND_LBLK ->
            IterRename([dac EXCEPT !.leaf_bp = LeafBuf], f, XFS_DAS_FLIP_LFLAG)
      [] dac.dela_state \in {XFS_DAS_FLIP_LFLAG, XFS_DAS_RM_LBLK} ->
            IterRemoveOld([dac EXCEPT !.leaf_bp = LeafBuf], f, XFS_DAS_RM_LBLK)
      [] dac.dela_state = XFS_DAS_FOUND_NBLK ->
            IF f.nalloc > 0
            THEN IterAgain([dac EXCEPT !.blkcnt = f.nalloc], f, XFS_DAS_ALLOC_NODE)
            ELSE IterRename(dac, f, XFS_DAS_FLIP_NFLAG)
      [] dac.dela_state = XFS_DAS_ALLOC_NODE ->
            LET n == xfs_attr_rmtval_set_blk(dac.blkcnt)
            IN  IF n > 0
                THEN IterAgain([dac EXCEPT !.blkcnt = n], f, XFS_DAS_ALLOC_NODE)
                ELSE IterRename([dac EXCEPT !.blkcnt = n], f, XFS_DAS_FLIP_NFLAG)
      [] dac.dela_state \in {XFS_DAS_FLIP_NFLAG, XFS_DAS_RM_NBLK} ->
            IterRemoveOld(dac, f, XFS_DAS_RM_NBLK)
      [] OTHER -> [error |-> EFSCORRUPTED, dac |-> dac, f |-> f]

(* xfs_attr_remove_iter, after its state machine diagram *)
xfs_attr_remove_iter(dac, f) ==
    IF dac.dela_state = XFS_DAS_RM_SHRINK THEN IterDone(dac, f)
    ELSE IF f.shrink THEN IterAgain(dac, f, XFS_DAS_RM_SHRINK)
    ELSE IterDone(dac, f)

(* the switch on the op kind in the step wrapper; fail: the iterator runs *)
(* out of space                                                           *)
DacIter(dac, f, op_flags, fail) ==
    IF fail THEN [error |-> ENOSPC, dac |-> dac, f |-> f]
    ELSE IF op_flags = XFS_ATTR_OP_FLAGS_SET THEN xfs_attr_set_iter(dac, f)
    ELSE xfs_attr_remove_iter(dac, f)

(* variant: the context is set up again on every call *)
xfs_attr_finish_item_init_always(dac) ==
    [NoDac EXCEPT !.da_args = "item", !.dela_state = XFS_DAS_INIT]

(* the earlier xfs_attr_finish_item, "only need to initialize args        *)
(* context once": a context whose state is zero is cleared and put in     *)
(* XFS_DAS_INIT                                                            *)
xfs_attr_finish_item_init(dac) ==
    IF dac.dela_state = 0
    THEN [NoDac EXCEPT !.da_args = "item", !.dela_state = XFS_DAS_INIT]
    ELSE dac

(* xfs_attri_item_recover on -EAGAIN: the attr item and its argument      *)
(* block are copied from the stack to the heap and the copy's context is  *)
(* pointed at the copied argument block                                   *)
xfs_attri_item_recover_copy(dac) == [dac EXCEPT !.da_args = "heap"]

(* the continuation state and the scratch fields of a context *)
Saved(dac) == [dela_state |-> dac.dela_state, leaf_bp |-> dac.leaf_bp,
               blkcnt |-> dac.blkcnt]

(* One call of the step on operation o in transaction tp: din is the      *)
(* context handed to the iterator, bt the transaction the leaf buffer is  *)
(* joined to at that moment, keep what the driver makes of the returned   *)
(* context.  The iterator leaves a leaf buffer it holds joined to and     *)
(* held by its transaction.                                               *)
DacCall(o, din, bt, fail, keep) ==
    LET c  == ops[o].cx
        it == DacIter(din, c.fork, ops[o].d.op, fail)
        r  == xfs_trans_attr_finish_update(OK, it.error, ops[o].d.op, TRUE)
        lf == it.dac.leaf_bp # NULL
    IN  [ops[o] EXCEPT
           !.dac = keep,
           !.err = r.error,
           !.tdirty = r.tdirty,
           !.nstep = @ + 1,
           !.nretry = IF r.error = EAGAIN THEN @ + 1 ELSE @,
           !.alive = (r.error = EAGAIN),
           !.pc = IF r.error = EAGAIN THEN "droll"
                  ELSE IF r.error = OK THEN "finished" ELSE "failed",
           !.cx = [c EXCEPT !.fork = it.f,
                            !.ncall = 1,
                            !.re = (c.ncall > 0),
                            !.prev = c.ret,
                            !.inp = din,
                            !.ret = it.dac,
                            !.joined = (din.leaf_bp # NULL /\ bt = c.tp
                                        /\ c.b_hold),
                            !.b_transp = IF lf THEN c.tp ELSE bt,
                            !.b_hold = (lf \/ c.b_hold)]]

DacRest == <<attri, attrd, ail, log, mode, scanpos, shutdown, hasdelattr,
             crashes, queued, bad, hist>>

InitDac ==
    /\ \E drv \in Drivers, f \in Forks,
          op \in {XFS_ATTR_OP_FLAGS_SET, XFS_ATTR_OP_FLAGS_REMOVE} :
          /\ (op = XFS_ATTR_OP_FLAGS_REMOVE) =>
                 (~f.oneblk /\ ~f.space /\ ~f.rename /\ f.nalloc = 0 /\ f.nrm = 0)
          /\ (op = XFS_ATTR_OP_FLAGS_SET) => ~f.shrink
          /\ ~f.oneblk => ~f.space
          /\ ~f.rename => f.nrm = 0
          /\ ops = [o \in Ops |->
                      IF o = 1
                      THEN [NoOp EXCEPT
                              !.pc = "dstep", !.alive = TRUE, !.held = TRUE,
                              !.d = [ino |-> 1, op |-> op, nlen |-> 1,
                                     vlen |-> IF op = XFS_ATTR_OP_FLAGS_SET
                                              THEN 1 ELSE 0],
                              !.dac = [NoDac EXCEPT !.da_args =
                                         IF drv \in {"finish_item", "finish_item2"}
                                         THEN "item" ELSE "stack"],
                              !.cx = [NoCx EXCEPT !.drv = drv, !.tp = 1,
                                                  !.fork = f,
                                                  !.mgr = (drv \in {"finish_item",
                                                                    "finish_item2"})]]
                      ELSE NoOp]
    /\ attri = [s \in Slots |-> NoAttri]
    /\ attrd = [k \in DSlots |-> NoAttrd]
    /\ ail = <<>>
    /\ log = <<>>
    /\ mode = "live"
    /\ scanpos = 0
    /\ shutdown = FALSE
    /\ hasdelattr = TRUE
    /\ crashes = 0
    /\ queued = 0
    /\ bad = FALSE
    /\ hist = NoHist

(* xfs_attr_finish_item: a leaf buffer that is not in the transaction is  *)
(* joined to it and held, the transaction pointer is reset, then the step *)
DacFinishItem(o, fail) ==
    /\ ops[o].pc = "dstep"
    /\ ops[o].nstep < MaxSteps
    /\ ops[o].cx.drv \in {"finish_item", "recover"}
    /\ ops[o].cx.drv = "recover" => ops[o].cx.ncall > 0
    /\ LET c    == ops[o].cx
           join == ops[o].dac.leaf_bp # NULL /\ c.b_transp # c.tp
           bt   == IF join THEN c.tp ELSE c.b_transp
           c1   == [c EXCEPT !.b_transp = bt, !.b_hold = (join \/ @)]
           it   == DacIter(ops[o].dac, c.fork, ops[o].d.op, fail)
       IN  ops' = [ops EXCEPT ![o] =
                     [DacCall(o, ops[o].dac, bt, fail, it.dac)
                        EXCEPT !.cx.joined = (ops[o].dac.leaf_bp # NULL
                                              /\ bt = c.tp /\ c1.b_hold)]]
    /\ UNCHANGED DacRest

(* the earlier xfs_attr_finish_item: the context is set up on the first   *)
(* call, the transaction pointer is reset, then the step                  *)
DacFinishItem2(o, fail) ==
    /\ ops[o].pc = "dstep"
    /\ ops[o].nstep < MaxSteps
    /\ ops[o].cx.drv = "finish_item2"
    /\ LET din == xfs_attr_finish_item_init(ops[o].dac)
           it  == DacIter(din, ops[o].cx.fork, ops[o].d.op, fail)
       IN  ops' = [ops EXCEPT ![o] = DacCall(o, din, ops[o].cx.b_transp, fail,
                                             it.dac)]
    /\ UNCHANGED DacRest

(* xfs_attri_item_recover: the first step of a recovered intent on a      *)
(* context on the stack; on -EAGAIN the heap copy is queued and the       *)
(* transaction committed                                                  *)
DacRecover(o, fail) ==
    /\ ops[o].pc = "dstep"
    /\ ops[o].nstep < MaxSteps
    /\ ops[o].cx.drv = "recover"
    /\ ops[o].cx.ncall = 0
    /\ LET din == [NoDac EXCEPT !.da_args = "stack"]
           it  == DacIter(din, ops[o].cx.fork, ops[o].d.op, fail)
       IN  ops' = [ops EXCEPT ![o] =
                     [DacCall(o, din, ops[o].cx.b_transp, fail,
                              xfs_attri_item_recover_copy(it.dac))
                        EXCEPT !.held = FALSE]]
    /\ UNCHANGED DacRest

(* The transaction of a step that asked for a retry is committed and the  *)
(* next one opened.  The manager's roll re-joins the buffers held in the  *)
(* old transaction; the transaction that the recovery driver opens for a  *)
(* captured continuation starts with nothing joined.                      *)
DacRoll(o) ==
    /\ ops[o].pc = "droll"
    /\ ops[o].cx.drv \in {"finish_item", "recover", "finish_item2"}
    /\ ops' = [ops EXCEPT ![o].pc = "dstep",
                          ![o].nroll = @ + 1,
                          ![o].tdirty = FALSE,
                          ![o].cx.tp = @ + 1,
                          ![o].cx.mgr = TRUE,
                          ![o].cx.b_transp =
                              IF ops[o].cx.mgr /\ ops[o].cx.b_hold
                                 /\ @ = ops[o].cx.tp
                              THEN ops[o].cx.tp + 1 ELSE 0]
    /\ UNCHANGED DacRest

(* one pass of the do-while loop of the recover function that drives the  *)
(* operation itself: step, xfs_trans_roll, re-join of the inode and of    *)
(* the leaf buffer; the pass whose step succeeds falls out of the loop    *)
(* into the commit                                                        *)
DacRecover2(o, fail) ==
    /\ ops[o].pc \in {"dstep", "droll"}
    /\ ops[o].nstep < MaxSteps
    /\ ops[o].cx.drv = "recover2"
    /\ LET c   == ops[o].cx
           din == ops[o].dac
           it  == DacIter(din, c.fork, ops[o].d.op, fail)
           o1  == DacCall(o, din, c.b_transp, fail, it.dac)
           err == it.error # OK /\ it.error # EAGAIN
       IN  ops' = [ops EXCEPT ![o] =
                     IF err THEN o1
                     ELSE [o1 EXCEPT !.nroll = @ + 1,
                                     !.tdirty = FALSE,
                                     !.cx.tp = @ + 1,
                                     !.cx.b_transp = IF it.dac.leaf_bp # NULL
                                                     THEN c.tp + 1 ELSE 0,
                                     !.cx.b_hold = (it.dac.leaf_bp # NULL)]]
    /\ UNCHANGED DacRest

(* one pass of the do-while loop of the earliest recover function: the    *)
(* leaf buffer pointer is cleared, then step, xfs_trans_commit and, on    *)
(* -EAGAIN, a new transaction that the inode is joined to                 *)
DacRecover0(o, fail) ==
    /\ ops[o].pc \in {"dstep", "droll"}
    /\ ops[o].nstep < MaxSteps
    /\ ops[o].cx.drv = "recover0"
    /\ LET c   == ops[o].cx
           din == [ops[o].dac EXCEPT !.leaf_bp = NULL]
           it  == DacIter(din, c.fork, ops[o].d.op, fail)
           o1  == DacCall(o, din, c.b_transp, fail, it.dac)
           err == it.error # OK /\ it.error # EAGAIN
       IN  ops' = [ops EXCEPT ![o] =
                     IF err THEN o1
                     ELSE [o1 EXCEPT !.tdirty = FALSE,
                                     !.cx.tp = IF it.error = EAGAIN
                                               THEN @ + 1 ELSE @,
                                     !.cx.b_transp = 0]]
    /\ UNCHANGED DacRest

NextDac ==
    \/ \E o \in Ops, fail \in BOOLEAN : DacFinishItem(o, fail)
    \/ \E o \in Ops, fail \in BOOLEAN : DacFinishItem2(o, fail)
    \/ \E o \in Ops, fail \in BOOLEAN : DacRecover(o, fail)
    \/ \E o \in Ops : DacRoll(o)
    \/ \E o \in Ops, fail \in BOOLEAN : DacRecover2(o, fail)
    \/ \E o \in Ops, fail \in BOOLEAN : DacRecover0(o, fail)

SpecDac == InitDac /\ [][NextDac]_vars

(* C21: when a step returned RETRY, the next call of the step through     *)
(* xfs_attr_finish_item, also the one that follows the heap copy of the   *)
(* recover function, enters the iterator with the continuation state and  *)
(* the scratch fields that the previous call returned.                    *)
C21_ResumesSavedState ==
    \A o \in Ops :
        (/\ ops[o].cx.drv \in {"finish_item", "recover", "finish_item2"}
         /\ ops[o].cx.re)
        => /\ Saved(ops[o].cx.inp) = Saved(ops[o].cx.prev)
           /\ ops[o].cx.prev.dela_state # 0
           /\ ops[o].pc = "droll" => Saved(ops[o].dac) = Saved(ops[o].cx.ret)

C21_Witness ==
    \E o \in Ops :
        /\ ops[o].cx.drv = "recover"
        /\ ops[o].cx.re
        /\ ops[o].cx.inp.da_args = "heap"
        /\ ops[o].cx.inp.dela_state = XFS_DAS_ALLOC_NODE
        /\ ops[o].cx.inp.blkcnt = 1
        /\ ops[o].pc = "finished"

(* ====================================================================== *)
(* Zero-length names and values: one operation from its creation through  *)
(* the log, the decoder and the validity check of a recover function      *)
(* ====================================================================== *)
ZeroDescs == [ino : ValidInos,
              op : {XFS_ATTR_OP_FLAGS_SET, XFS_ATTR_OP_FLAGS_REMOVE},
              nlen : 0..1, vlen : 0..1]

(* the validity check at the head of xfs_attri_recover: a SET must have a *)
(* name and a value, a REMOVE a name                                      *)
xfs_attri_recover_check(d) ==
    ~( \/ ~(d.op = XFS_ATTR_OP_FLAGS_SET \/ d.op = XFS_ATTR_OP_FLAGS_REMOVE)
       \/ (d.vlen > XATTR_SIZE_MAX \/ d.nlen > XATTR_NAME_MAX)
       \/ (d.op = XFS_ATTR_OP_FLAGS_SET /\ (d.vlen = 0 \/ d.nlen = 0))
       \/ (d.op = XFS_ATTR_OP_FLAGS_REMOVE /\ d.nlen = 0) )

(* the error with which the recover function drv refuses an intent with   *)
(* format d                                                               *)
RecoverCheck(drv, d) ==
    CASE drv = "recover"  -> IF xfs_attri_validate(d, TRUE) THEN OK
                             ELSE EFSCORRUPTED
      [] drv = "recover2" -> IF xfs_attri_item_recover_check(d) THEN OK
                             ELSE EFSCORRUPTED
      [] OTHER            -> IF xfs_attri_recover_check(d) THEN OK ELSE EIO

InitValid ==
    /\ \E d \in ZeroDescs :
       \E nm \in ByteSeqs(d.nlen), vl \in ByteSeqs(d.vlen) :
          ops = [o \in Ops |->
                   IF o = 1
                   THEN [NoOp EXCEPT !.pc = "queued", !.d = d, !.alive = TRUE,
                                     !.held = TRUE, !.name = nm, !.value = vl]
                   ELSE NoOp]
    /\ attri = [s \in Slots |-> NoAttri]
    /\ attrd = [k \in DSlots |-> NoAttrd]
    /\ ail = <<>>
    /\ log = <<>>
    /\ mode = "live"
    /\ scanpos = 0
    /\ shutdown = FALSE
    /\ hasdelattr = TRUE
    /\ crashes = 0
    /\ queued = 1
    /\ bad = FALSE
    /\ hist = NoHist

(* the validity check of recover function drv on what the decoder copied  *)
(* out of the format region of the record                                 *)
ValidCheck(drv) ==
    /\ scanpos >= 1
    /\ ops[1].pc = "intent"
    /\ ops' = [ops EXCEPT ![1].pc = "validated",
                          ![1].cx.drv = drv,
                          ![1].err = RecoverCheck(drv, log[1].d)]
    /\ UNCHANGED <<attri, attrd, ail, log, mode, scanpos, shutdown, hasdelattr,
                   crashes, queued, bad, hist>>

NextValid ==
    \/ \E s \in SlotChoices, allocok \in BOOLEAN :
          xfs_attr_create_intent(1, s, allocok)
    \/ \E pad \in PadBytes : attri[1].st = "live" /\ CodecFormat(pad)
    \/ CodecDecode
    \/ \E drv \in {"recover", "recover2", "recover0"} : ValidCheck(drv)

SpecValid == InitValid /\ [][NextValid]_vars

(* C22: a SET with a non-empty name and a zero-length value is accepted   *)
(* by xfs_attr_create_intent, by the decoder and by the validity check of *)
(* every recover function, and its record has a format and a name region  *)
(* and no value region; an intent with a zero-length name, SET or REMOVE, *)
(* is refused by the decoder and by every validity check.                 *)
C22_ZeroValueSetAccepted ==
    LET d == ops[1].d
    IN  /\ (d.op = XFS_ATTR_OP_FLAGS_SET /\ d.nlen > 0 /\ d.vlen = 0) =>
              /\ (ops[1].pc # "queued" /\ ops[1].ip # NULL) =>
                     attri[ops[1].ip].d = d
              /\ scanpos >= 1 => (log[1].nvecs = 2 /\ log[1].value = <<>>)
              /\ hist.seen[1] => hist.err[1] = OK
              /\ ops[1].pc = "validated" => ops[1].err = OK
        /\ d.nlen = 0 =>
              /\ hist.seen[1] => hist.err[1] # OK
              /\ ops[1].pc = "validated" => ops[1].err # OK

(* ====================================================================== *)
(* Removing a name that is not there                                      *)
(*                                                                        *)
(* The attribute fork of the inode holds the names of PresentNames.  A    *)
(* caller builds the argument block of a REMOVE, with or without          *)
(* XFS_DA_OP_OKNOENT in args->op_flags; the live path passes that block   *)
(* to the iterator unchanged, the replay path builds a new one from the   *)
(* recovered intent.                                                      *)
(* ====================================================================== *)
XFS_DA_OP_OKNOENT == 8
HasFlag(flags, bit) == (flags \div bit) % 2 = 1

PresentNames == {<<1>>}

(* the attribute tree on a REMOVE: a name that is not there is -ENOATTR   *)
(* unless the argument block says that a missing name is fine             *)
xfs_attr_remove_absent(op_flags, name) ==
    IF name \in PresentNames \/ HasFlag(op_flags, XFS_DA_OP_OKNOENT)
    THEN OK ELSE ENOATTR

(* variant: the replay path asks for a missing name to be tolerated *)
xfs_attri_item_recover_op_flags_oknoent(d) == XFS_DA_OP_OKNOENT

(* xfs_attri_item_recover: args.op_flags = attrp->alfi_op_flags *)
xfs_attri_item_recover_op_flags(d) == d.op

RemoveDesc == [ino |-> 1, op |-> XFS_ATTR_OP_FLAGS_REMOVE, nlen |-> 1,
               vlen |-> 0]

(* either a caller has queued a REMOVE, or the scan has recovered the     *)
(* intent of one that a crash interrupted                                 *)
InitAbsent ==
    /\ \E nm \in ByteSeqs(1), fl \in {0, XFS_DA_OP_OKNOENT}, rec \in BOOLEAN :
          IF rec
          THEN /\ fl = XFS_DA_OP_OKNOENT
               /\ hasdelattr = TRUE
               /\ attri = [s \in Slots |->
                             IF s = 1
                             THEN [RecoveredIntent(RemoveDesc)
                                     EXCEPT !.name = nm, !.hasbuf = TRUE]
                             ELSE NoAttri]
               /\ log = <<IRec(RecoveredIntent(RemoveDesc))>>
               /\ ail = <<1>>
               /\ ops = [o \in Ops |-> NoOp]
               /\ mode = "replay"
               /\ scanpos = 2
               /\ crashes = 1
               /\ queued = 0
               /\ hist = [NoHist EXCEPT !.log0 = log, !.seen[1] = TRUE]
          ELSE /\ attri = [s \in Slots |-> NoAttri]
               /\ log = <<>>
               /\ ail = <<>>
               /\ ops = [o \in Ops |->
                           IF o = 1
                           THEN [NoOp EXCEPT !.pc = "queued", !.d = RemoveDesc,
                                             !.alive = TRUE, !.held = TRUE,
                                             !.name = nm,
                                             !.cx.op_flags = fl]
                           ELSE NoOp]
               /\ mode = "live"
               /\ scanpos = 0
               /\ crashes = 0
               /\ queued = 1
               /\ hist = NoHist
               /\ hasdelattr \in BOOLEAN
    /\ attrd = [k \in DSlots |-> NoAttrd]
    /\ shutdown = FALSE
    /\ bad = FALSE

NextAbsent ==
    \/ \E s \in SlotChoices : xfs_attr_create_intent(1, s, TRUE)
    \/ DeferRoll(1)
    \/ \E k \in DSlotChoices : xfs_attr_create_done(1, k)
    \/ xfs_attr_finish_item(1, OK,
           xfs_attr_remove_absent(ops[1].cx.op_flags, ops[1].name))
    \/ DeferCommit(1)
    \/ \E s \in Slots : LogCommitted(s)
    \/ \E s \in Slots, abort \in BOOLEAN : ItemUnpin(s, abort)
    \/ \E commit_ok \in BOOLEAN, k \in FreeDSlots, s2 \in FreeSlots :
          /\ FirstUnprocessed(ail, attri) # NULL
          /\ LET a == attri[FirstUnprocessed(ail, attri)]
             IN  RecoverItem(OK, OK, OK,
                     xfs_attr_remove_absent(
                         xfs_attri_item_recover_op_flags(a.d), a.name),
                     commit_ok, k, s2)
    \/ ReplayEnd
    \/ RecoveryFinish

SpecAbsent == InitAbsent /\ [][NextAbsent]_vars

(* C23: a REMOVE of a name that is not in the fork, issued with the       *)
(* ok-if-missing flag, completes without error on the live path and on    *)
(* the replay path: the step returns no error and leaves the transaction  *)
(* dirty, and once the operation is over the intent and the done item     *)
(* are freed, each once.                                                  *)
C23_RemoveAbsentSucceeds ==
    /\ \A o \in Ops :
          (/\ ops[o].d.op = XFS_ATTR_OP_FLAGS_REMOVE
           /\ ops[o].name \notin PresentNames
           /\ HasFlag(ops[o].cx.op_flags, XFS_DA_OP_OKNOENT))
          => /\ ops[o].pc # "failed"
             /\ ops[o].pc = "stepped" => ops[o].tdirty
             /\ (/\ ops[o].pc = "finished"
                 /\ ops[o].ip # NULL
                 /\ attri[ops[o].ip].loc = "unpinned")
                => /\ attri[ops[o].ip].st = "freed"
                   /\ attri[ops[o].ip].frees = 1
                   /\ attrd[ops[o].dp].st = "freed"
                   /\ attrd[ops[o].dp].frees = 1
    /\ \A s \in Slots :
          (/\ attri[s].rec
           /\ attri[s].proc
           /\ attri[s].d.op = XFS_ATTR_OP_FLAGS_REMOVE
           /\ attri[s].name \notin PresentNames)
          => /\ hist.sterr[attri[s].lpos] = OK
             /\ hist.err[attri[s].lpos] = OK

(* ---------------------------------------------------------------------- *)
(* Records of one live operation                                          *)
(* ---------------------------------------------------------------------- *)
RECURSIVE NRecs(_, _)
NRecs(l, t) ==
    IF l = <<>> THEN 0
    ELSE (IF Head(l).t = t THEN 1 ELSE 0) + NRecs(Tail(l), t)

(* C24: a live SET whose step returned RETRY exactly once has, when it    *)
(* has finished, written exactly one intent record and exactly one done   *)
(* record and rolled its transaction exactly once, and the items the log  *)
(* has let go of are freed.                                               *)
C24_OneRetryOneOfEach ==
    \A o \in Ops :
        (/\ mode = "live"
         /\ crashes = 0
         /\ ops[o].pc = "finished"
         /\ ops[o].d.op = XFS_ATTR_OP_FLAGS_SET
         /\ ops[o].nretry = 1
         /\ ops[o].ip # NULL)
        => /\ NRecs(log, "I") = 1
           /\ NRecs(log, "D") = 1
           /\ ops[o].nroll = 1
           /\ \A s \in Slots :
                 attri[s].loc = "unpinned" => /\ attri[s].st = "freed"
                                              /\ attri[s].frees = 1
           /\ \A k \in DSlots :
                 attrd[k].st # "none" => /\ attrd[k].st = "freed"
                                         /\ attrd[k].frees = 1

(* C25: replay of an intent whose owner no longer exists does not fail.   *)
(* -ENOENT is what the inode lookup answers for an inode that is gone     *)
(* and nothing else produces it, hist.err is what the recover function    *)
(* returned for the intent at a log position: it is never -ENOENT (the    *)
(* missing owner does not fail the replay) and a fortiori the missing     *)
(* owner is not reported as -EFSCORRUPTED.                                *)
C25_MissingOwnerBenign ==
    \A p \in LogPos : hist.ndrive[p] > 0 => hist.err[p] # ENOENT

(* ====================================================================== *)
(* Replay of a recovery list of two intents                               *)
(*                                                                        *)
(* The log a crash left behind holds the intent records of two unfinished *)
(* operations; the second may name an inode number that does not verify,  *)
(* which the scan accepts and the recover function rejects.  The first    *)
(* step of a replay succeeds or fails (a RETRY is no failure and is left  *)
(* to the specification of one intent).                                   *)
(* ====================================================================== *)
ReplayDescs == { d \in AllDescs : /\ d.op \in {XFS_ATTR_OP_FLAGS_SET,
                                               XFS_ATTR_OP_FLAGS_REMOVE}
                                  /\ d.nlen = 1
                                  /\ d.vlen = (IF d.op = XFS_ATTR_OP_FLAGS_SET
                                               THEN 1 ELSE 0) }

ReplayRec(id, d) == [t |-> "I", id |-> id, d |-> d, ilen |-> FMT_SIZE,
                     ipos |-> 0]

InitReplay ==
    /\ \E d1, d2 \in ReplayDescs : log = <<ReplayRec(1, d1), ReplayRec(2, d2)>>
    /\ attri = [s \in Slots |-> NoAttri]
    /\ attrd = [k \in DSlots |-> NoAttrd]
    /\ ail = <<>>
    /\ ops = [o \in Ops |-> NoOp]
    /\ mode = "scan"
    /\ scanpos = 1
    /\ shutdown = FALSE
    /\ hasdelattr = TRUE
    /\ crashes = 1
    /\ queued = 0
    /\ bad = FALSE
    /\ hist = [NoHist EXCEPT !.log0 = log]

NextReplay ==
    \/ \E s \in FreeSlots : ScanIntent(s)
    \/ ScanEnd
    \/ \E iget \in IgetResults, talloc \in TallocResults, dq \in DqResults,
          iter \in {OK, ENOSPC}, commit_ok \in BOOLEAN,
          k \in FreeDSlots, s2 \in FreeSlots :
          RecoverItem(iget, talloc, dq, iter, commit_ok, k, s2)
    \/ ReplayEnd
    \/ RecoveryFinish

SpecReplay == InitReplay /\ [][NextReplay]_vars

SpecDacFair == InitDac /\ [][NextDac]_vars /\ WF_vars(NextDac)

C28_LeafBufferRejoined ==
    \A o \in Ops :
        (ops[o].cx.re /\ ops[o].cx.prev.leaf_bp # NULL)
        => /\ ops[o].cx.joined
           /\ ops[o].cx.inp.leaf_bp = ops[o].cx.prev.leaf_bp

(* C29: a done record never precedes its intent.  A done item is only     *)
(* ever created for an intent item that exists, i.e. that                 *)
(* xfs_attr_create_intent, the relog or the scan has added to a           *)
(* transaction or to the AIL before; and every done record in the log     *)
(* was written for an intent record that stands at an earlier position    *)
(* and carries the id the done record names.                              *)
C29_DoneAfterIntent ==
    /\ \A k \in DSlots :
          attrd[k].st = "live"
          => /\ attrd[k].attrip # NULL
             /\ attri[attrd[k].attrip].st = "live"
             /\ attri[attrd[k].attrip].id = attrd[k].alf_id
    /\ \A q \in 1..Len(log) :
          log[q].t = "D"
          => /\ log[q].ipos \in 1..q
             /\ log[log[q].ipos].t = "I"
             /\ log[log[q].ipos].id = log[q].id

(* the roll after a RETRY has written the done record of the first intent *)
(* and the intent of the remaining work in one transaction, the done      *)
(* record first                                                           *)
C29_Witness ==
    /\ Len(log) >= 3
    /\ log[1].t = "I"
    /\ log[2].t = "D"
    /\ log[2].ipos = 1
    /\ log[3].t = "I"

(* C30: a done item is freed exactly once, by the commit or by the cancel *)
(* of its transaction and never by both, and the step that frees it drops *)
(* exactly one reference of the intent it points to: the intent's count   *)
(* falls by one and the release is the done item's.  A freed done item is *)
(* not freed again.                                                       *)
C30_DoneFreedOnce ==
    [][\A k \in DSlots :
          /\ (attrd[k].st # "freed" /\ attrd'[k].st = "freed")
             => LET s == attrd'[k].attrip
                IN  /\ attrd'[k].frees = 1
                    /\ s # NULL
                    /\ attri'[s].by = Append(attri[s].by, "attrd")
                    /\ attri'[s].refcount = attri[s].refcount - 1
                    /\ attri[s].refcount >= 1
          /\ (attrd[k].st = "freed" /\ attrd'[k].st = "freed")
             => attrd'[k] = attrd[k]]_vars

(* a done item freed when its transaction was aborted (the filesystem is  *)
(* shut down) while the log still holds the other reference of its intent *)
C30_Witness ==
    \E k \in DSlots :
        /\ attrd[k].st = "freed"
        /\ attrd[k].frees = 1
        /\ attri[attrd[k].attrip].st = "live"
        /\ attri[attrd[k].attrip].refcount = 1
        /\ attri[attrd[k].attrip].by = <<"attrd">>
        /\ shutdown

(* ---------------------------------------------------------------------- *)
(* Ids of intents and done items                                          *)
(* ---------------------------------------------------------------------- *)
IntentIds == 0..MaxSlots

(* C31: a done item carries the id of the intent it was created for, from *)
(* its creation until it is freed (and still when it is freed), and       *)
(* xfs_attri_item_match answers TRUE for exactly the intent's own id.     *)
C31_DoneCarriesIntentId ==
    /\ \A k \in DSlots :
          attrd[k].st \in {"live", "freed"}
          => /\ attrd[k].attrip # NULL
             /\ Allocated(attrd[k].attrip)
             /\ attrd[k].alf_id = attri[attrd[k].attrip].id
             /\ xfs_attri_item_match(attri[attrd[k].attrip], attrd[k].alf_id)
    /\ \A s \in Slots, id \in IntentIds :
          Allocated(s) => (xfs_attri_item_match(attri[s], id) <=> id = attri[s].id)

(* the done item of a recovered intent whose id, read from its record, is *)
(* not the address the scan allocated it at                               *)
C31_Witness ==
    \E k \in DSlots :
        /\ attrd[k].st = "freed"
        /\ attri[attrd[k].attrip].rec
        /\ attrd[k].alf_id # attrd[k].attrip
        /\ attrd[k].alf_id = attri[attrd[k].attrip].id

(* C32: an intent decoded from the log carries the id of its log record,  *)
(* whatever address the scan allocated it at, and among the recovered     *)
(* intents in the recovery list no two carry the same id: a done record   *)
(* of the log matches the intent it was written for and no other.         *)
C32_DecodedIntentKeepsRecordId ==
    /\ \A s \in Slots :
          (Allocated(s) /\ attri[s].rec)
          => /\ attri[s].lpos \in 1..Len(log)
             /\ log[attri[s].lpos].t = "I"
             /\ attri[s].id = log[attri[s].lpos].id
    /\ \A s, t \in Slots :
          (/\ s # t
           /\ attri[s].rec /\ attri[s].st = "live" /\ InAil(ail, s)
           /\ attri[t].rec /\ attri[t].st = "live" /\ InAil(ail, t))
          => attri[s].id # attri[t].id
    /\ \A s \in Slots :
          (/\ Allocated(s)
           /\ attri[s].rec
           /\ "recover_release" \in { attri[s].by[i] : i \in 1..Len(attri[s].by) })
          => \E q \in 1..Len(log) : /\ log[q].t = "D"
                                    /\ log[q].id = attri[s].id
                                    /\ q > attri[s].lpos

(* an intent decoded at an address that is not its id, cancelled during   *)
(* the scan by the done record written for it before the crash            *)
C32_Witness ==
    \E s \in Slots :
        /\ attri[s].rec
        /\ attri[s].id # s
        /\ attri[s].st = "freed"
        /\ attri[s].by = <<"pass2", "recover_release">>

(* C33: with the feature enabled, whenever a step of a live operation     *)
(* runs, the intent of its batch exists, is filled from the descriptor    *)
(* and was dirtied and logged by the roll before the step; every call of  *)
(* create_intent allocates at most one intent; and no step runs for an    *)
(* operation whose intent could not be created.                           *)
StepRuns(o) == ops'[o].nstep > ops[o].nstep
IntentLogged(o) ==
    LET ip == ops[o].ip
    IN  /\ ip # NULL
        /\ attri[ip].st = "live"
        /\ attri[ip].d = ops[o].d
        /\ attri[ip].lpos \in 1..Len(log)
        /\ log[attri[ip].lpos].t = "I"
        /\ log[attri[ip].lpos].id = attri[ip].id
        /\ log[attri[ip].lpos].d = ops[o].d
NewIntents == { s \in Slots : attri[s].st = "none" /\ attri'[s].st # "none" }
C33_IntentBeforeFirstStep ==
    [][ /\ \A o \in Ops :
              (mode = "live" /\ hasdelattr /\ StepRuns(o)) => IntentLogged(o)
        /\ (mode = "live" /\ \E o \in Ops : ops[o].pc = "queued")
              => Cardinality(NewIntents) <= 1 ]_vars

(* C34: every intent covers exactly one attr item: create_intent is       *)
(* called with max_items = 1 item, no two operations share an intent, and *)
(* the owner, op kind, name length, value length and flags of the intent  *)
(* are those of the item it was created for.                              *)
max_items == 1
SharingIntent(s) == { o \in Ops : ops[o].ip = s }
DescInUse(o) == ops[o].pc \in {"queued", "intent", "ready", "havedone"}
DescDone(o)  == ops[o].pc \in {"stepped", "finished", "failed"}
C35_DescriptorFreedOnce ==
    \A o \in Ops :
        /\ DescInUse(o) => (ops[o].alive /\ ops[o].nfree = 0)
        /\ DescDone(o)  => (~ops[o].alive /\ ops[o].nfree = 1)
        /\ (ops[o].pc = "queued" /\ ops[o].nstep > 0) => ops[o].alive

(* the attr item of an operation that went through a RETRY and was then   *)
(* freed by the step that ended it                                        *)
C35_Witness ==
    \E o \in Ops :
        /\ ops[o].nretry > 0
        /\ ops[o].nstep > 1
        /\ ops[o].pc \in {"stepped", "failed"}
        /\ ops[o].nfree = 1

(* ---------------------------------------------------------------------- *)
(* Every intent is freed in the end                                       *)
(*                                                                        *)
(* A path has terminated when neither the manager, nor the log (commit    *)
(* and unpin callbacks), nor the recovery driver can take another step;   *)
(* a crash is not a step of the path.                                     *)
(* ---------------------------------------------------------------------- *)
Progress == Next /\ crashes' = crashes
Terminated == ~ENABLED Progress

(* C36: on every path that has terminated, every intent that was created  *)
(* or decoded has been freed, once: after a commit and a committed done   *)
(* record, after an abort before or after the done item exists, after a   *)
(* successful replay and after each kind of replay failure.               *)
C36_IntentEventuallyFreed ==
    Terminated =>
        \A s \in Slots : /\ attri[s].st \in {"none", "freed", "gone"}
                         /\ attri[s].frees <= 1

(* the end of a recovery in which the replay of a decoded intent failed   *)
(* and the end of recovery freed that intent                              *)
C36_Witness ==
    /\ Terminated
    /\ \E s \in Slots :
          /\ attri[s].rec
          /\ attri[s].proc
          /\ attri[s].st = "freed"
          /\ attri[s].frees = 1
          /\ hist.err[attri[s].lpos] # OK
          /\ "cancel_intents" \in { attri[s].by[i] : i \in 1..Len(attri[s].by) }

(* C37: whenever the replay of an intent made its step (SUCCESS or RETRY) *)
(* and the final commit of the replay transaction failed, so that nothing *)
(* was written to the log, the recovery function returns an error.        *)
ReplayCommitFailed(p) ==
    /\ hist'.ndrive[p] > hist.ndrive[p]
    /\ hist'.nstep[p] > hist.nstep[p]
    /\ hist'.sterr[p] \in {OK, EAGAIN}
    /\ log' = log
C37_CommitFailureReported ==
    [][ \A p \in LogPos : ReplayCommitFailed(p) => hist'.err[p] # OK ]_vars

(* ====================================================================== *)
(* The inode of a replayed intent: the reference xfs_iget returns and the *)
(* exclusive lock, on each return path of the recover functions           *)
(* ====================================================================== *)
RefDrivers == {"recover", "recover2", "recover0"}

(* what the function does with the inode before it returns, by exit:      *)
(*   "talloc" - xfs_trans_alloc failed (lock not taken yet)               *)
(*   "abort"  - the step, a roll or a commit failed (lock held)           *)
(*   "done"   - the last statement was reached (lock held)                *)
xfs_attri_item_recover_exit(drv, exit) ==
    CASE drv = "recover" ->
           IF exit = "talloc" THEN [unlock |-> FALSE, rele |-> FALSE]
           ELSE [unlock |-> TRUE, rele |-> TRUE]
      [] drv = "recover2" ->
           IF exit = "talloc" THEN [unlock |-> FALSE, rele |-> TRUE]
           ELSE [unlock |-> TRUE, rele |-> TRUE]
      [] OTHER ->
           IF exit = "talloc" THEN [unlock |-> FALSE, rele |-> FALSE]
           ELSE [unlock |-> TRUE, rele |-> FALSE]

RefExit(op, exit, error) ==
    LET x == xfs_attri_item_recover_exit(op.cx.drv, exit)
    IN  [op EXCEPT !.pc = IF error = OK THEN "finished" ELSE "failed",
                   !.err = error,
                   !.held = IF x.unlock THEN FALSE ELSE @,
                   !.nunlock = IF x.unlock THEN @ + 1 ELSE @,
                   !.nrele = IF x.rele THEN @ + 1 ELSE @]

InitRef ==
    /\ \E drv \in RefDrivers, i \in LockInos,
          op \in {XFS_ATTR_OP_FLAGS_SET, XFS_ATTR_OP_FLAGS_REMOVE} :
          ops = [o \in Ops |->
                   IF o = 1
                   THEN [NoOp EXCEPT !.pc = "start",
                                     !.d = [ino |-> i, op |-> op, nlen |-> 1,
                                            vlen |-> IF op = XFS_ATTR_OP_FLAGS_SET
                                                     THEN 1 ELSE 0],
                                     !.cx = [NoCx EXCEPT !.drv = drv]]
                   ELSE NoOp]
    /\ attri = [s \in Slots |-> NoAttri]
    /\ attrd = [k \in DSlots |-> NoAttrd]
    /\ ail = <<>>
    /\ log = <<>>
    /\ mode = "replay"
    /\ scanpos = 0
    /\ shutdown = FALSE
    /\ hasdelattr = TRUE
    /\ crashes = 0
    /\ queued = 0
    /\ bad = FALSE
    /\ hist = NoHist

(* xfs_iget: on an error the function returns at once *)
RefIget(o, iget) ==
    /\ ops[o].pc = "start"
    /\ ops' = [ops EXCEPT ![o] =
                 IF iget = OK THEN [@ EXCEPT !.pc = "got", !.nget = @ + 1]
                 ELSE [@ EXCEPT !.pc = "failed", !.err = iget]]
    /\ UNCHANGED LockRest

(* xfs_trans_alloc *)
RefTalloc(o, talloc) ==
    /\ ops[o].pc = "got"
    /\ ops' = [ops EXCEPT ![o] =
                 IF talloc = OK THEN [@ EXCEPT !.pc = "alloced"]
                 ELSE RefExit(@, "talloc", talloc)]
    /\ UNCHANGED LockRest

(* xfs_ilock, xfs_trans_ijoin *)
RefIlock(o) ==
    /\ ops[o].pc = "alloced"
    /\ ops' = [ops EXCEPT ![o].pc = "locked", ![o].held = TRUE,
                          ![o].nlock = @ + 1]
    /\ UNCHANGED LockRest

(* one step and what follows it: the first version hands a RETRY to the   *)
(* manager and commits, ignoring the result; the loops of the other two   *)
(* roll or commit after every step and go round again on a RETRY          *)
RefStep(o, iter, commit_ok) ==
    /\ ops[o].pc = "locked"
    /\ iter \in StepResults(ops[o].nretry)
    /\ iter \notin {OK, EAGAIN} => commit_ok
    /\ LET o1 == [ops[o] EXCEPT !.nstep = @ + 1]
       IN  ops' = [ops EXCEPT ![o] =
                 IF iter \notin {OK, EAGAIN} THEN RefExit(o1, "abort", iter)
                 ELSE IF o1.cx.drv = "recover" THEN RefExit(o1, "done", OK)
                 ELSE IF ~commit_ok THEN RefExit(o1, "abort", EIO)
                 ELSE IF iter = EAGAIN THEN [o1 EXCEPT !.nretry = @ + 1,
                                                       !.nroll = @ + 1]
                 ELSE IF o1.cx.drv = "recover2"
                      THEN [o1 EXCEPT !.pc = "rolled", !.nroll = @ + 1]
                      ELSE RefExit(o1, "done", OK)]
    /\ UNCHANGED LockRest

(* xfs_trans_commit after the loop of the second version *)
RefCommit(o, commit_ok) ==
    /\ ops[o].pc = "rolled"
    /\ ops' = [ops EXCEPT ![o] = IF commit_ok THEN RefExit(@, "done", OK)
                                 ELSE RefExit(@, "abort", EIO)]
    /\ UNCHANGED LockRest

NextRef ==
    \/ \E o \in Ops, iget \in IgetResults : RefIget(o, iget)
    \/ \E o \in Ops, talloc \in TallocResults : RefTalloc(o, talloc)
    \/ \E o \in Ops : RefIlock(o)
    \/ \E o \in Ops, iter \in {OK, EAGAIN, ENOSPC}, commit_ok \in BOOLEAN :
          RefStep(o, iter, commit_ok)
    \/ \E o \in Ops, commit_ok \in BOOLEAN : RefCommit(o, commit_ok)

SpecRef == InitRef /\ [][NextRef]_vars

Returned(o) == ops[o].pc \in {"finished", "failed"}

(* C38: when the recover function has returned, the inode lock has been   *)
(* released exactly as often as it was taken and is not held, and the     *)
(* reference xfs_iget gave has been released exactly once (never, when    *)
(* the lookup failed).                                                    *)
C38_LockAndReferenceReleased ==
    \A o \in Ops :
        Returned(o) => /\ ~ops[o].held
                       /\ ops[o].nunlock = ops[o].nlock
                       /\ ops[o].nrele = ops[o].nget

(* the regions and bytes of a log record as the format callback wrote it *)
RegionsWritten(r) ==
    1 + (IF Len(r.name) > 0 THEN 1 ELSE 0) + (IF Len(r.value) > 0 THEN 1 ELSE 0)
BytesWritten(r) == r.ilen + Len(r.name) + Len(r.value)

(* C39: the region count in the header of a logged intent is the number   *)
(* of regions written, 2 when the value length is 0 and 3 otherwise, and  *)
(* the regions and bytes the size callback reports are those the format   *)
(* callback writes.                                                       *)
C39_RegionCountsAgree ==
    scanpos >= 1 =>
        LET r == log[1]
            a == attri[1]
        IN  /\ r.nvecs = RegionsWritten(r)
            /\ RegionsWritten(r) = (IF a.d.vlen = 0 THEN 2 ELSE 3)
            /\ xfs_attri_item_size(a) = RegionsWritten(r)
            /\ xfs_attri_item_size_nbytes(a) = BytesWritten(r)

(* a logged intent with a value: three regions, the name and the value    *)
(* region longer than the name and the value                              *)
C39_Witness ==
    /\ scanpos >= 1
    /\ attri[1].d.vlen > 0
    /\ attri[1].d.nlen # attri[1].d.vlen
    /\ log[1].nvecs = 3
    /\ Len(log[1].name) > attri[1].d.nlen
    /\ BytesWritten(log[1]) = FMT_SIZE + Len(log[1].name) + Len(log[1].value)

(* C40: the name region and the value region of a logged intent, padded   *)
(* by the inline function ATTR_NVEC_SIZE, have a length that is a         *)
(* multiple of 4 and at least the payload length, and that length is the  *)
(* one the macro ATTR_NVEC_SIZE of the header gives for the payload.      *)
PaddedAsHeader(region, n) ==
    /\ Len(region) = ATTR_NVEC_SIZE(n)
    /\ Len(region) % INT32_SIZE = 0
    /\ Len(region) >= n
    /\ ATTR_NVEC_SIZE_h(n) % INT32_SIZE = 0
    /\ ATTR_NVEC_SIZE_h(n) >= n
    /\ Len(region) = ATTR_NVEC_SIZE_h(n)
C40_PaddedLengthsAgree ==
    scanpos >= 1 =>
        /\ PaddedAsHeader(log[1].name, attri[1].d.nlen)
        /\ attri[1].d.vlen > 0 => PaddedAsHeader(log[1].value, attri[1].d.vlen)

====
